---- MODULE Spec2Model ----
(***************************************************************************)
(* Penlet backend: authentication core.                                    *)
(*   - login with brute-force lockout      (api/v1/endpoints/auth.py)      *)
(*   - bearer-token resolution             (api/deps.py, core/security.py) *)
(*   - password reset, persisted and JWT   (api/v1/endpoints/auth.py)      *)
(*   - sliding-window rate limiter + gate  (middleware/rate_limiter.py)    *)
(* datetime.utcnow() is read in whole seconds, time.time() in units of     *)
(* 1/Hz second.                                                            *)
(***************************************************************************)
EXTENDS Integers, Sequences, FiniteSets, TLC

\* ---------------------------------------------------------------- settings
MAX_LOGIN_ATTEMPTS == 5
LOCKOUT_DURATION_MINUTES == 30
ACCESS_TOKEN_EXPIRE_MINUTES == 30
REFRESH_TOKEN_EXPIRE_DAYS == 7
MIN_PASSWORD_LENGTH == 8
REQUIRE_UPPERCASE == TRUE
REQUIRE_LOWERCASE == TRUE
REQUIRE_DIGIT == TRUE
REQUIRE_SPECIAL == FALSE
RATE_LIMIT_REQUESTS == 100
RATE_LIMIT_WINDOW_SECONDS == 60

\* timedelta(minutes=..), timedelta(days=..), timedelta(hours=1) in seconds
LockoutSeconds == LOCKOUT_DURATION_MINUTES * 60
AccessTtl == ACCESS_TOKEN_EXPIRE_MINUTES * 60
RefreshTtl == REFRESH_TOKEN_EXPIRE_DAYS * 24 * 60 * 60
ResetTtl == 60 * 60

\* ------------------------------------------------------------------ bounds
\* readings of time.time() per second: the limiter's clock, its timestamps
\* and the variable now of the limiter's specifications count 1/Hz seconds
Hz == 2
\* the clock of the account model advances AuthTick seconds at a time, up to
\* AuthMaxTicks times
AuthTick == LockoutSeconds \div 3
AuthMaxTicks == 4
\* the clock of the session model: SessionMaxTicks steps of the access TTL
SessionMaxTicks == 2
\* the clocks of the reset model and of the token model
ResetTick == ResetTtl \div 2
ResetMaxTicks == 2
TokenTick == 1000
TokenMaxTicks == 2
\* rows of the users table
MaxUsers == 3
\* JWTs in circulation, persisted reset tokens ever issued
MaxJwts == 1
MaxResetTokens == 2
\* the limiter: limits 1..MaxLimit, the windows of the routes, a clock of
\* LimiterTick seconds
MaxLimit == 3
Windows == {RATE_LIMIT_WINDOW_SECONDS, 300}
LimiterTick == 30
LimiterMaxTicks == 11
\* overlapping callers: limits 1..ConcMaxLimit, a clock of ConcTick seconds
ConcMaxLimit == 2
ConcTick == 30
ConcMaxTicks == 4
\* the service: timestamps the table holds, a clock of ServiceTick seconds
MaxTraffic == 3
GateTraffic == 4
GateMaxTicks == 2
RetryTraffic == 6
RetryFineTicks == 2
ServiceTick == 60
ServiceMaxTicks == 3

\* ------------------------------------------------------------------ values
NoTime == -1
NoUser == "none"

UserIds == {"u1"}
Usernames == [u \in UserIds |-> "alice"]
Emails == [u \in UserIds |-> "alice@penlet.ug"]
Roles == [u \in UserIds |-> "student"]

\* what a client may type as username or email; str.lower() on each
Identities == {"alice", "ALICE@PENLET.UG", "ghost"}
Lower(s) ==
    CASE s = "ALICE@PENLET.UG" -> "alice@penlet.ug"
      [] s = "ALICE" -> "alice"
      [] OTHER -> s

\* passwords are sequences of characters
LowerCase == <<"a","b","c","d","e","f","g","h","i","j","k","l","m",
               "n","o","p","q","r","s","t","u","v","w","x","y","z">>
UpperCase == <<"A","B","C","D","E","F","G","H","I","J","K","L","M",
               "N","O","P","Q","R","S","T","U","V","W","X","Y","Z">>
Digits == <<"0","1","2","3","4","5","6","7","8","9">>
Specials == {"!","@","#","$","%","^","&","*","(",")",",",".","?",":","{","}","|","<",">"}

PwA == <<"P","e","n","l","3","t","U","g">>
PwB == <<"K","a","m","p","a","l","a","7","x">>
PwShort == <<"P","e","n","1">>
PwSeq == <<"P","e","n","l","e","t","1","2","3">>
Passwords == {PwA, PwB}
Candidates == {PwA, PwB, PwShort, PwSeq}
\* the new passwords tried in a reset: one the policy accepts, one it rejects
NewPasswords == {PwB, PwSeq}
InitialPassword == [u \in UserIds |-> PwA]

VARIABLES
    now,           \* datetime.utcnow() in seconds; time.time() in 1/Hz seconds
    users,         \* the users table: id -> row
    reset_tokens,  \* the password_reset_tokens table, in insertion order
    jwts,          \* signed tokens in circulation (the server keeps none)
    resp,          \* the last request and the response to it
    streak,        \* history: consecutive wrong-password logins per user
    tripTime,      \* history: when the streak reached MAX_LOGIN_ATTEMPTS
    consumed,      \* history: tokens that have completed a password reset
    requests,      \* rate_limiter.requests: key -> list of timestamps
    lock,          \* rate_limiter._lock: the task holding it
    tasks,         \* is_rate_limited() coroutines in flight
    cleanup,       \* the cleanup() coroutine
    admitted,      \* history: bag of the checks admitted, each with its window
    quota,         \* the (limit, window) the callers of is_rate_limited pass
    pending,       \* login requests sent at the same instant, not yet begun
    inflight,      \* bag of the rows those logins have loaded
    tally          \* history: what the logins of the burst have done

accountVars == <<users, reset_tokens, jwts, streak, tripTime, consumed>>
limiterVars == <<requests, lock, tasks, cleanup, admitted, quota>>
raceVars == <<pending, inflight, tally>>
vars == <<now, resp, accountVars, limiterVars, raceVars>>

\* ---------------------------------------------------------- PasswordHasher
get_password_hash(password) == <<"argon2", password>>

verify_password(plain_password, hashed_password) ==
    hashed_password = <<"argon2", plain_password>>

\* ---------------------------------------------------------- PasswordPolicy
IndexOf(seq, c) ==
    IF \E i \in 1..Len(seq) : seq[i] = c
    THEN CHOOSE i \in 1..Len(seq) : seq[i] = c ELSE 0

IsUpper(c) == IndexOf(UpperCase, c) > 0
IsLower(c) == IndexOf(LowerCase, c) > 0
IsDigit(c) == IndexOf(Digits, c) > 0

\* str.lower(), one character
LowerChar(c) == IF IsUpper(c) THEN LowerCase[IndexOf(UpperCase, c)] ELSE c

\* r"(.)\1{2,}"
HasRepeat(pw) ==
    \E i \in 1..(Len(pw) - 2) : pw[i] = pw[i + 1] /\ pw[i + 1] = pw[i + 2]

\* r"(012|123|...|789)" and r"(abc|bcd|...|xyz)"
HasRun(pw, alphabet) ==
    \E i \in 1..(Len(pw) - 2) :
        LET a == IndexOf(alphabet, pw[i]) IN
        /\ a > 0
        /\ a + 2 <= Len(alphabet)
        /\ pw[i + 1] = alphabet[a + 1]
        /\ pw[i + 2] = alphabet[a + 2]

\* PasswordValidator.validate: the list of errors, in order
PasswordErrors(password) ==
    LET low == [i \in 1..Len(password) |-> LowerChar(password[i])] IN
    (IF Len(password) < MIN_PASSWORD_LENGTH THEN <<"length">> ELSE <<>>)
    \o (IF REQUIRE_UPPERCASE /\ ~\E i \in 1..Len(password) : IsUpper(password[i])
        THEN <<"uppercase">> ELSE <<>>)
    \o (IF REQUIRE_LOWERCASE /\ ~\E i \in 1..Len(password) : IsLower(password[i])
        THEN <<"lowercase">> ELSE <<>>)
    \o (IF REQUIRE_DIGIT /\ ~\E i \in 1..Len(password) : IsDigit(password[i])
        THEN <<"digit">> ELSE <<>>)
    \o (IF REQUIRE_SPECIAL /\ ~\E i \in 1..Len(password) : password[i] \in Specials
        THEN <<"special">> ELSE <<>>)
    \o (IF HasRepeat(low) \/ HasRun(low, Digits) \/ HasRun(low, LowerCase)
        THEN <<"weak patterns">> ELSE <<>>)

\* ------------------------------------------------------------- TokenCodec
NoPayload == [type |-> "invalid"]

Jwt(type, sub, role, exp) ==
    [type |-> type, sub |-> sub, role |-> role, exp |-> exp, key |-> "SECRET_KEY"]

\* secrets.token_urlsafe(32): the string of the n-th persisted reset token
Opaque(n) == [type |-> "opaque", id |-> n]

create_access_token(sub, role, t) == Jwt("access", sub, role, t + AccessTtl)

create_refresh_token(sub, t) == Jwt("refresh", sub, "", t + RefreshTtl)

create_password_reset_token(email, t) == Jwt("password_reset", email, "", t + ResetTtl)

\* a token turned away at the instant of its exp already
decode_token_Early(token, t) ==
    IF token.type = "opaque" THEN NoPayload
    ELSE IF token.key # "SECRET_KEY" THEN NoPayload
    ELSE IF token.exp <= t THEN NoPayload
    ELSE token

\* the exp claim not looked at
decode_token_NoExpiry(token, t) ==
    IF token.type = "opaque" THEN NoPayload
    ELSE IF token.key # "SECRET_KEY" THEN NoPayload
    ELSE token

\* jwt.decode: the signature, then exp (a token is expired once exp < now)
decode_token(token, t) ==
    IF token.type = "opaque" THEN NoPayload
    ELSE IF token.key # "SECRET_KEY" THEN NoPayload
    ELSE IF token.exp < t THEN NoPayload
    ELSE token

\* the e-mail address of a password_reset JWT, or "" (None)
verify_password_reset_token(token, t) ==
    LET payload == decode_token(token, t) IN
    IF payload = NoPayload THEN ""
    ELSE IF payload.type # "password_reset" THEN ""
    ELSE payload.sub

\* tokens somebody signed with another secret
Forged(t) ==
    { [type |-> ty, sub |-> "u1", role |-> "admin", exp |-> t + AccessTtl, key |-> "other"] :
        ty \in {"access", "refresh"} }

\* what a client can put in a token field
Presentable == jwts \cup Forged(now) \cup {Opaque(n) : n \in 1..Len(reset_tokens)}

\* ------------------------------------------------------------------ users
NewUser(u) ==
    [ email |-> Emails[u],
      username |-> Usernames[u],
      hashed_password |-> get_password_hash(InitialPassword[u]),
      role |-> Roles[u],
      is_active |-> TRUE,
      is_verified |-> FALSE,
      is_locked |-> FALSE,
      failed_login_attempts |-> 0,
      locked_until |-> NoTime,
      last_login |-> NoTime ]

\* select(User).where(or_(username == x, email == x)).scalar_one_or_none()
FindUser(x) ==
    LET hit == {u \in DOMAIN users : users[u].username = x \/ users[u].email = x}
    IN IF hit = {} THEN NoUser ELSE CHOOSE u \in hit : TRUE

\* select(User).where(User.email == x).scalar_one_or_none()
FindByEmail(x) ==
    LET hit == {u \in DOMAIN users : users[u].email = x}
    IN IF hit = {} THEN NoUser ELSE CHOOSE u \in hit : TRUE

\* the comparison turned round
LockActive_Reversed(row, t) == row.locked_until # NoTime /\ row.locked_until < t

\* the lock still held at the instant it runs out
LockActive_Inclusive(row, t) == row.locked_until # NoTime /\ row.locked_until >= t

\* user.locked_until and user.locked_until > datetime.utcnow()
LockActive(row, t) == row.locked_until # NoTime /\ row.locked_until > t

\* an unlock that forgets the count
Unlocked_KeepsCount(row) ==
    [row EXCEPT !.is_locked = FALSE, !.locked_until = NoTime]

\* the auto-unlock branch: is_locked False, locked_until None, attempts 0
Unlocked(row) ==
    [row EXCEPT !.is_locked = FALSE, !.locked_until = NoTime,
                !.failed_login_attempts = 0]

\* the remaining time left in seconds
RemainingMinutes_Seconds(row, t) == (row.locked_until - t) % 86400

\* (locked_until - utcnow()).seconds // 60
RemainingMinutes(row, t) == ((row.locked_until - t) % 86400) \div 60

Reply(op, arg, user, status, detail, event, tokens) ==
    [op |-> op, arg |-> arg, user |-> user, status |-> status, detail |-> detail,
     event |-> event, tokens |-> tokens, pre |-> <<>>]

\* what a handler saw of the lock when it loaded the row
LockSeen(row) ==
    [is_locked |-> row.is_locked, failed_login_attempts |-> row.failed_login_attempts]

\* --------------------------------------------------------------- AuthFlow
\* a guard that locks one attempt late
FailedVerify_Late(r1, t) ==
    LET r2 == [r1 EXCEPT !.failed_login_attempts = @ + 1] IN
    IF r2.failed_login_attempts > MAX_LOGIN_ATTEMPTS
    THEN [ row |-> [r2 EXCEPT !.is_locked = TRUE, !.locked_until = t + LockoutSeconds],
           commit |-> TRUE, status |-> 423,
           detail |-> <<"Account locked. Try again in", LOCKOUT_DURATION_MINUTES>>,
           event |-> "account_locked", verified |-> TRUE ]
    ELSE [ row |-> r2, commit |-> TRUE, status |-> 401,
           detail |-> <<"Incorrect username or password.",
                        MAX_LOGIN_ATTEMPTS - r2.failed_login_attempts>>,
           event |-> "", verified |-> TRUE ]

\* login() after verify_password has returned False: the count goes up, and
\* at MAX_LOGIN_ATTEMPTS the row is locked, committed and audited
FailedVerify(r1, t) ==
    LET r2 == [r1 EXCEPT !.failed_login_attempts = @ + 1] IN
    IF r2.failed_login_attempts >= MAX_LOGIN_ATTEMPTS
    THEN [ row |-> [r2 EXCEPT !.is_locked = TRUE, !.locked_until = t + LockoutSeconds],
           commit |-> TRUE, status |-> 423,
           detail |-> <<"Account locked. Try again in", LOCKOUT_DURATION_MINUTES>>,
           event |-> "account_locked", verified |-> TRUE ]
    ELSE [ row |-> r2, commit |-> TRUE, status |-> 401,
           detail |-> <<"Incorrect username or password.",
                        MAX_LOGIN_ATTEMPTS - r2.failed_login_attempts>>,
           event |-> "", verified |-> TRUE ]

\* login() from the loaded row to its verdict: the row as the handler leaves
\* it, whether it reached db.commit(), and the HTTP outcome.
LoginOutcome(row, password, t) ==
    IF row.is_locked /\ LockActive(row, t)
    THEN [ row |-> row, commit |-> FALSE, status |-> 423,
           detail |-> <<"Account locked. Try again in", RemainingMinutes(row, t)>>,
           event |-> "", verified |-> FALSE ]
    ELSE LET r1 == IF row.is_locked THEN Unlocked(row) ELSE row IN
         IF ~verify_password(password, r1.hashed_password)
         THEN FailedVerify(r1, t)
         ELSE IF ~r1.is_active
         THEN [ row |-> r1, commit |-> FALSE, status |-> 403,
                detail |-> <<"Account is disabled">>, event |-> "", verified |-> TRUE ]
         ELSE IF ~r1.is_verified
         THEN [ row |-> r1, commit |-> FALSE, status |-> 403,
                detail |-> <<"Please verify your email before logging in.">>,
                event |-> "", verified |-> TRUE ]
         ELSE [ row |-> [r1 EXCEPT !.failed_login_attempts = 0, !.is_locked = FALSE,
                                   !.locked_until = NoTime, !.last_login = t],
                commit |-> TRUE, status |-> 200, detail |-> <<"bearer">>,
                event |-> "user_login", verified |-> TRUE ]

\* the answer to a login for an identity no user has
UnknownIdentity == [status |-> 401, detail |-> <<"Incorrect username or password">>]

\* the tokens of a 200 login or refresh
TokenPair(u, row, t) ==
    <<create_access_token(u, row.role, t), create_refresh_token(u, t)>>

\* history of the streak of wrong passwords, kept from the requests, their
\* answers and the clock: it starts over once the lockout it caused has run out
StreakBefore(u, t) ==
    IF streak[u] >= MAX_LOGIN_ATTEMPTS /\ t >= tripTime[u] + LockoutSeconds
    THEN 0 ELSE streak[u]

InLockout(u, t) ==
    streak[u] >= MAX_LOGIN_ATTEMPTS /\ t < tripTime[u] + LockoutSeconds

StreakAfterLogin(u, wrong, status, t) ==
    LET s0 == StreakBefore(u, t) IN
    IF InLockout(u, t) THEN <<streak[u], tripTime[u]>>
    ELSE IF wrong
         THEN IF s0 + 1 >= MAX_LOGIN_ATTEMPTS
              THEN <<MAX_LOGIN_ATTEMPTS, t>> ELSE <<s0 + 1, tripTime[u]>>
         ELSE IF status = 200 THEN <<0, tripTime[u]>> ELSE <<s0, tripTime[u]>>

\* global_exception_handler: the answer to an exception no handler caught
InternalError == [status |-> 500, detail |-> <<"An internal server error occurred">>]

\* what a login saw of the row, whether log_audit_event raised, and the
\* status the handler was about to answer
LoginSeen(row, audit_raises, due) ==
    [is_locked |-> row.is_locked, failed_login_attempts |-> row.failed_login_attempts,
     audit_raised |-> audit_raises, due |-> due]

\* login() run at utcnow() = t: the table it leaves, its answer, and the
\* history of the streak. The two calls of log_audit_event (account_locked
\* after the commit of the lock, user_login after the commit of the login)
\* stand outside any try: when the call raises, the exception leaves the
\* handler.
LoginResult(ident, password, audit_raises, t) ==
    LET u == FindUser(Lower(ident)) IN
    IF u = NoUser
    THEN [ users |-> users, streak |-> streak, tripTime |-> tripTime,
           resp |-> Reply("login", password, NoUser, UnknownIdentity.status,
                          UnknownIdentity.detail, "", <<>>) ]
    ELSE LET out == LoginOutcome(users[u], password, t)
             wrong == ~verify_password(password, users[u].hashed_password)
             h == StreakAfterLogin(u, wrong, out.status, t)
             pair == IF out.status = 200 THEN TokenPair(u, out.row, t) ELSE <<>>
             raised == audit_raises /\ out.event # ""
             seen == LoginSeen(users[u], raised, out.status)
         IN [ users |-> IF out.commit THEN [users EXCEPT ![u] = out.row] ELSE users,
              streak |-> [streak EXCEPT ![u] = h[1]],
              tripTime |-> [tripTime EXCEPT ![u] = h[2]],
              resp |-> IF raised
                       THEN [Reply("login", password, u, InternalError.status,
                                   InternalError.detail, "", <<>>) EXCEPT !.pre = seen]
                       ELSE [Reply("login", password, u, out.status, out.detail,
                                   out.event, pair) EXCEPT !.pre = seen] ]

\* POST /auth/login
LoginAudited(ident, password, audit_raises) ==
    LET done == LoginResult(ident, password, audit_raises, now) IN
    /\ users' = done.users
    /\ resp' = done.resp
    /\ streak' = done.streak
    /\ tripTime' = done.tripTime
    /\ UNCHANGED <<now, reset_tokens, jwts, consumed>>
    /\ UNCHANGED <<limiterVars, raceVars>>

\* POST /auth/login while the audit log works
Login(ident, password) == LoginAudited(ident, password, FALSE)

\* ------------------------------------------------------------ registration
\* UserCreate.validate_password, run before the handler
SchemaPasswordOk(password) ==
    /\ Len(password) >= 8
    /\ \E i \in 1..Len(password) : IsUpper(password[i])
    /\ \E i \in 1..Len(password) : IsLower(password[i])
    /\ \E i \in 1..Len(password) : IsDigit(password[i])

\* uuid.uuid4(): an id no row has
AllUserIds == <<"u1", "u2", "u3">>
NextUserId ==
    AllUserIds[CHOOSE i \in 1..Len(AllUserIds) :
                  /\ AllUserIds[i] \notin DOMAIN users
                  /\ \A j \in 1..(i - 1) : AllUserIds[j] \in DOMAIN users]

\* select(User).where(or_(email == e, username == n)): the rows found
Colliding(email, username) ==
    {u \in DOMAIN users : users[u].email = email \/ users[u].username = username}

\* User(...) as register() builds it
RegisteredUser(user_data) ==
    [ email |-> Lower(user_data.email),
      username |-> Lower(user_data.username),
      hashed_password |-> get_password_hash(user_data.password),
      role |-> user_data.role,
      is_active |-> TRUE,
      is_verified |-> FALSE,
      is_locked |-> FALSE,
      failed_login_attempts |-> 0,
      locked_until |-> NoTime,
      last_login |-> NoTime ]

\* register() up to its verdict: status, detail and whether a row is added.
\* scalar_one_or_none() raises MultipleResultsFound when the e-mail address
\* is one user's and the username another's.
RegisterOutcome(user_data) ==
    LET errors == PasswordErrors(user_data.password)
        hits == Colliding(Lower(user_data.email), Lower(user_data.username))
    IN
    IF ~SchemaPasswordOk(user_data.password)
    THEN [status |-> 422, detail |-> <<"value_error">>, created |-> FALSE]
    ELSE IF user_data.role = "teacher"
    THEN [status |-> 403, detail |-> <<"Teachers must be added by an administrator">>,
          created |-> FALSE]
    ELSE IF user_data.role = "admin"
    THEN [status |-> 403,
          detail |-> <<"Admin accounts cannot be created through registration">>,
          created |-> FALSE]
    ELSE IF errors # <<>>
    THEN [status |-> 400, detail |-> errors, created |-> FALSE]
    ELSE IF Cardinality(hits) > 1
    THEN [status |-> InternalError.status, detail |-> InternalError.detail,
          created |-> FALSE]
    ELSE IF hits # {}
    THEN LET existing_user == CHOOSE u \in hits : TRUE IN
         IF users[existing_user].email = Lower(user_data.email)
         THEN [status |-> 400, detail |-> <<"Email already registered">>, created |-> FALSE]
         ELSE [status |-> 400, detail |-> <<"Username already taken">>, created |-> FALSE]
    ELSE IF user_data.role = "student" /\ user_data.student_class = ""
    THEN [status |-> 400, detail |-> <<"Students must specify their class level">>,
          created |-> FALSE]
    ELSE [status |-> 201, detail |-> <<"created">>, created |-> TRUE]

\* POST /auth/register. The row is committed before log_audit_event is
\* called, and that call stands inside try/except.
Register(user_data, audit_raises) ==
    LET out == RegisterOutcome(user_data)
        id == NextUserId
        seen == [ taken |-> Colliding(Lower(user_data.email), Lower(user_data.username)),
                  audit_raised |-> audit_raises /\ out.created, due |-> out.status ]
    IN
    /\ out.created => Cardinality(DOMAIN users) < MaxUsers
    /\ users' = IF out.created
                THEN [u \in DOMAIN users \cup {id} |->
                         IF u = id THEN RegisteredUser(user_data) ELSE users[u]]
                ELSE users
    /\ resp' = [Reply("register", user_data, IF out.created THEN id ELSE NoUser,
                      out.status, out.detail,
                      IF out.created /\ ~audit_raises THEN "user_registered" ELSE "",
                      <<>>)
                  EXCEPT !.pre = seen]
    /\ UNCHANGED <<now, reset_tokens, jwts, streak, tripTime, consumed>>
    /\ UNCHANGED <<limiterVars, raceVars>>

\* POST /auth/verify-email with the token mailed at registration (24 h)
VerifyEmail(u) ==
    /\ ~users[u].is_verified
    /\ users' = [users EXCEPT ![u].is_verified = TRUE]
    /\ resp' = Reply("verify_email", <<>>, u, 200, <<"Email verified successfully">>, "", <<>>)
    /\ UNCHANGED <<now, reset_tokens, jwts, streak, tripTime, consumed>>
    /\ UNCHANGED <<limiterVars, raceVars>>

\* POST /admin/users/{id}/toggle-active, by an administrator
ToggleUserActive(u) ==
    /\ users' = [users EXCEPT ![u].is_active = ~@]
    /\ resp' = Reply("toggle_active", <<>>, u, 200, <<"toggled">>, "user_status_changed", <<>>)
    /\ UNCHANGED <<now, reset_tokens, jwts, streak, tripTime, consumed>>
    /\ UNCHANGED <<limiterVars, raceVars>>

\* DELETE /users/{id}, by an administrator: a soft delete
DeleteUser(u) ==
    /\ users' = [users EXCEPT ![u].is_active = FALSE]
    /\ resp' = Reply("delete_user", <<>>, u, 200, <<"User deleted successfully">>, "", <<>>)
    /\ UNCHANGED <<now, reset_tokens, jwts, streak, tripTime, consumed>>
    /\ UNCHANGED <<limiterVars, raceVars>>

\* dependency get_current_user, then get_current_active_user: the verdict on
\* a bearer token and the row it leaves committed
CurrentUser(token, t) ==
    LET payload == decode_token(token, t) IN
    IF payload = NoPayload
    THEN [user |-> NoUser, status |-> 401, detail |-> <<"Invalid or expired token">>, unlock |-> FALSE]
    ELSE IF payload.type # "access"
    THEN [user |-> NoUser, status |-> 401, detail |-> <<"Invalid token type">>, unlock |-> FALSE]
    ELSE IF payload.sub \notin DOMAIN users
    THEN [user |-> NoUser, status |-> 401, detail |-> <<"User not found">>, unlock |-> FALSE]
    ELSE LET row == users[payload.sub] IN
         IF ~row.is_active
         THEN [user |-> NoUser, status |-> 401, detail |-> <<"User account is disabled">>, unlock |-> FALSE]
         ELSE IF row.is_locked /\ LockActive(row, t)
         THEN [user |-> NoUser, status |-> 401, detail |-> <<"Account is temporarily locked">>, unlock |-> FALSE]
         ELSE [user |-> payload.sub, status |-> 200, detail |-> <<"ok">>, unlock |-> row.is_locked]

\* GET /auth/me
GetMe(token) ==
    LET cu == CurrentUser(token, now) IN
    /\ users' = IF cu.unlock THEN [users EXCEPT ![cu.user] = Unlocked(@)] ELSE users
    /\ resp' = Reply("me", token, cu.user, cu.status, cu.detail, "", <<>>)
    /\ UNCHANGED <<now, reset_tokens, jwts, streak, tripTime, consumed>>
    /\ UNCHANGED <<limiterVars, raceVars>>

\* POST /auth/logout: get_current_user (whose verdicts get_current_active_user
\* does not change), then the audit entry
Logout(token) ==
    LET cu == CurrentUser(token, now) IN
    /\ users' = IF cu.unlock THEN [users EXCEPT ![cu.user] = Unlocked(@)] ELSE users
    /\ resp' = IF cu.status = 200
               THEN [Reply("logout", token, cu.user, 200, <<"Successfully logged out">>,
                           "user_logout", <<>>)
                       EXCEPT !.pre = LockSeen(users[cu.user])]
               ELSE Reply("logout", token, NoUser, cu.status, cu.detail, "", <<>>)
    /\ UNCHANGED <<now, reset_tokens, jwts, streak, tripTime, consumed>>
    /\ UNCHANGED <<limiterVars, raceVars>>

\* the row by id alone, active or not
FindActiveUser_AnyRow(user_id) ==
    IF user_id \in DOMAIN users THEN user_id ELSE NoUser

\* select(User).where(User.id == user_id, User.is_active == True)
FindActiveUser(user_id) ==
    IF user_id \in DOMAIN users /\ users[user_id].is_active THEN user_id ELSE NoUser

\* the type claim not looked at
IsRefreshPayload_AnyType(payload) == payload # NoPayload

\* not payload or payload.get("type") != "refresh", negated
IsRefreshPayload(payload) == payload # NoPayload /\ payload.type = "refresh"

\* POST /auth/refresh
RefreshToken(token) ==
    LET payload == decode_token(token, now) IN
    /\ IF ~IsRefreshPayload(payload)
       THEN resp' = Reply("refresh", token, NoUser, 401, <<"Invalid refresh token">>, "", <<>>)
       ELSE IF FindActiveUser(payload.sub) = NoUser
       THEN resp' = Reply("refresh", token, NoUser, 401, <<"User not found">>, "", <<>>)
       ELSE resp' = Reply("refresh", token, payload.sub, 200, <<"bearer">>, "",
                          TokenPair(payload.sub, users[payload.sub], now))
    /\ UNCHANGED <<now, users, reset_tokens, jwts, streak, tripTime, consumed>>
    /\ UNCHANGED <<limiterVars, raceVars>>

\* the client keeps a token of the response it just got; the model follows at
\* most MaxJwts tokens
Receive(i) ==
    /\ i \in 1..Len(resp.tokens)
    /\ resp.tokens[i] \notin jwts
    /\ Cardinality(jwts) < MaxJwts
    /\ jwts' = jwts \cup {resp.tokens[i]}
    /\ UNCHANGED <<now, users, reset_tokens, resp, streak, tripTime, consumed>>
    /\ UNCHANGED <<limiterVars, raceVars>>

\* ---------------------------------------------------------- password reset
GenericResetMessage ==
    <<"If an account exists with this email, a password reset link has been sent">>

\* a request that leaves the earlier tokens as they are
InvalidateOld_Keeps(u, t) == reset_tokens

\* update(PasswordResetToken).where(user_id == u, used_at == None).values(used_at=now)
InvalidateOld(u, t) ==
    [i \in 1..Len(reset_tokens) |->
        IF reset_tokens[i].user_id = u /\ reset_tokens[i].used_at = NoTime
        THEN [reset_tokens[i] EXCEPT !.used_at = t] ELSE reset_tokens[i]]

\* an answer that tells whether the address is known
ForgotPasswordReply_Telling(u) ==
    IF u = NoUser
    THEN [status |-> 404, message |-> <<"User not found">>]
    ELSE [status |-> 200, message |-> GenericResetMessage]

\* the two returns of forgot_password: "if not user" and the last line
ForgotPasswordReply(u) ==
    IF u = NoUser
    THEN [status |-> 200,
          message |-> <<"If an account exists with this email, a password reset link has been sent">>]
    ELSE [status |-> 200,
          message |-> <<"If an account exists with this email, a password reset link has been sent">>]

\* POST /auth/forgot-password
ForgotPassword(email) ==
    LET u == FindByEmail(Lower(email)) IN
    /\ IF u = NoUser
       THEN UNCHANGED reset_tokens
       ELSE /\ Len(reset_tokens) < MaxResetTokens
            /\ reset_tokens' = Append(InvalidateOld(u, now),
                                      [user_id |-> u, expires_at |-> now + ResetTtl,
                                       used_at |-> NoTime])
    /\ resp' = [Reply("forgot_password", email, NoUser, ForgotPasswordReply(u).status,
                      ForgotPasswordReply(u).message, "", <<>>)
                  EXCEPT !.pre = [known |-> u # NoUser]]
    /\ UNCHANGED <<now, users, jwts, streak, tripTime, consumed>>
    /\ UNCHANGED <<limiterVars, raceVars>>

\* pydantic EmailStr: the strings of the model that are e-mail addresses
EmailStr ==
    {"alice@penlet.ug", "ALICE@PENLET.UG", "bob@penlet.ug", "carol@penlet.ug",
     "ghost@penlet.ug"}

\* POST /auth/password-reset-request (legacy): the body is validated, then
\* forgot_password is called
RequestPasswordReset(email) ==
    IF email \in EmailStr
    THEN ForgotPassword(email)
    ELSE /\ resp' = Reply("forgot_password", email, NoUser, 422,
                          <<"value is not a valid email address">>, "", <<>>)
         /\ UNCHANGED <<now, accountVars, limiterVars, raceVars>>

\* a reset that leaves the lock as it found it
WithNewPassword_KeepsLock(row, new_password) ==
    [row EXCEPT !.hashed_password = get_password_hash(new_password)]

\* the row a reset leaves: new hash, lock state cleared
WithNewPassword(row, new_password) ==
    [row EXCEPT !.hashed_password = get_password_hash(new_password),
                !.failed_login_attempts = 0, !.is_locked = FALSE,
                !.locked_until = NoTime]

\* what a reset saw of the row, and the password it was given
ResetSeen(row, new_password) ==
    [is_locked |-> row.is_locked, failed_login_attempts |-> row.failed_login_attempts,
     hashed_password |-> row.hashed_password, new_password |-> new_password]

\* select(PasswordResetToken).where(token == x, used_at == None, expires_at > now)
UsableResetRows(token, t) ==
    IF token.type # "opaque" THEN {}
    ELSE { i \in 1..Len(reset_tokens) :
             /\ i = token.id
             /\ reset_tokens[i].used_at = NoTime
             /\ reset_tokens[i].expires_at > t }

\* a refusal that spends the token it was given
RaiseBadRequest_Spending(op, token, detail) ==
    /\ resp' = Reply(op, token, NoUser, 400, detail, "", <<>>)
    /\ reset_tokens' = [i \in 1..Len(reset_tokens) |->
                           IF token.type = "opaque" /\ token.id = i
                           THEN [reset_tokens[i] EXCEPT !.used_at = now]
                           ELSE reset_tokens[i]]
    /\ UNCHANGED <<users, streak, consumed>>

\* raise HTTPException(400, detail) of reset_password: both raises come before
\* the first assignment to the user or the token row
RaiseBadRequest(op, token, detail) ==
    /\ resp' = Reply(op, token, NoUser, 400, detail, "", <<>>)
    /\ UNCHANGED <<users, reset_tokens, streak, consumed>>

\* POST /auth/reset-password
ResetPassword(token, new_password) ==
    LET errors == PasswordErrors(new_password)
        rows == UsableResetRows(token, now)
    IN
    /\ IF errors # <<>>
       THEN RaiseBadRequest("reset_password", token, errors)
       ELSE IF rows = {}
       THEN RaiseBadRequest("reset_password", token, <<"Invalid or expired reset token">>)
       ELSE LET i == CHOOSE i \in rows : TRUE
                u == reset_tokens[i].user_id
            IN /\ users' = [users EXCEPT ![u] = WithNewPassword(@, new_password)]
               /\ reset_tokens' = [reset_tokens EXCEPT ![i].used_at = now]
               /\ resp' = [Reply("reset_password", token, u, 200,
                                 <<"Password reset successfully">>, "", <<>>)
                             EXCEPT !.pre = ResetSeen(users[u], new_password)]
               /\ streak' = [streak EXCEPT ![u] = 0]
               /\ consumed' = consumed \cup {token}
    /\ UNCHANGED <<now, jwts, tripTime>>
    /\ UNCHANGED <<limiterVars, raceVars>>

\* a caller of security.create_password_reset_token signs a one-hour
\* password_reset token for an e-mail address (no endpoint of auth.py calls it;
\* /auth/password-reset accepts what it signs)
CreatePasswordResetToken(email) ==
    /\ Cardinality(jwts) < MaxJwts
    /\ jwts' = jwts \cup {create_password_reset_token(email, now)}
    /\ resp' = Reply("create_password_reset_token", email, NoUser, 0, <<>>, "", <<>>)
    /\ UNCHANGED <<now, users, reset_tokens, streak, tripTime, consumed>>
    /\ UNCHANGED <<limiterVars, raceVars>>

\* POST /auth/password-reset (legacy)
PasswordResetLegacy(token, new_password) ==
    LET email == verify_password_reset_token(token, now)
        errors == PasswordErrors(new_password)
        u == FindByEmail(Lower(email))
    IN
    /\ IF email = ""
       THEN /\ resp' = Reply("password_reset_legacy", token, NoUser, 400,
                             <<"Invalid or expired reset token">>, "", <<>>)
            /\ UNCHANGED <<users, streak, consumed>>
       ELSE IF errors # <<>>
       THEN /\ resp' = Reply("password_reset_legacy", token, NoUser, 400, errors, "", <<>>)
            /\ UNCHANGED <<users, streak, consumed>>
       ELSE IF u = NoUser
       THEN /\ resp' = Reply("password_reset_legacy", token, NoUser, 404,
                             <<"User not found">>, "", <<>>)
            /\ UNCHANGED <<users, streak, consumed>>
       ELSE /\ users' = [users EXCEPT ![u] = WithNewPassword(@, new_password)]
            /\ resp' = [Reply("password_reset_legacy", token, u, 200,
                              <<"Password successfully reset">>, "", <<>>)
                          EXCEPT !.pre = ResetSeen(users[u], new_password)]
            /\ streak' = [streak EXCEPT ![u] = 0]
            /\ consumed' = consumed \cup {token}
    /\ UNCHANGED <<now, reset_tokens, jwts, tripTime>>
    /\ UNCHANGED <<limiterVars, raceVars>>

\* bags (of admitted checks, of loaded rows) as functions element -> count
BagAdd(b, e) ==
    [x \in DOMAIN b \cup {e} |-> IF x \in DOMAIN b THEN b[x] + (IF x = e THEN 1 ELSE 0) ELSE 1]

BagRemove(b, e) ==
    [x \in {y \in DOMAIN b : y # e \/ b[y] > 1} |-> IF x = e THEN b[x] - 1 ELSE b[x]]

RECURSIVE BagSize(_)
BagSize(b) ==
    IF DOMAIN b = {} THEN 0
    ELSE LET e == CHOOSE x \in DOMAIN b : TRUE
         IN b[e] + BagSize([x \in DOMAIN b \ {e} |-> b[x]])

\* ------------------------------------------------- logins that overlap
\* login() gives up control at each await: the SELECT of the row (lines
\* 255-260) and the commit. Between the two it works on the row it loaded.
BurstSize == 2 * MAX_LOGIN_ATTEMPTS
BurstUser == "u1"
WrongPassword == PwB

NoTally == [start |-> 0, increments |-> 0, locked_events |-> 0, turned_away |-> 0]

\* the UPDATE a commit flushes: the columns the handler changed on the row it
\* loaded, written over the row as it now stands
Flushed(current, loaded, changed) ==
    [f \in DOMAIN current |-> IF changed[f] # loaded[f] THEN changed[f] ELSE current[f]]

\* await db.execute(select(User)...): one login of the burst loads the row
LoginLoad ==
    /\ pending > 0
    /\ pending' = pending - 1
    /\ inflight' = BagAdd(inflight, users[BurstUser])
    /\ resp' = [Reply("login_load", WrongPassword, BurstUser, 0, <<>>, "", <<>>)
                  EXCEPT !.pre = LockSeen(users[BurstUser])]
    /\ UNCHANGED <<now, accountVars, limiterVars, tally>>

\* the rest of login() on a loaded row, up to its answer
LoginFinish(row) ==
    LET out == LoginOutcome(row, WrongPassword, now) IN
    /\ row \in DOMAIN inflight
    /\ inflight' = BagRemove(inflight, row)
    /\ users' = IF out.commit
                THEN [users EXCEPT ![BurstUser] = Flushed(@, row, out.row)]
                ELSE users
    /\ tally' = [tally EXCEPT
                   !.increments = @ + (IF out.verified THEN 1 ELSE 0),
                   !.locked_events = @ + (IF out.event = "account_locked" THEN 1 ELSE 0),
                   !.turned_away = @ + (IF out.verified THEN 0 ELSE 1)]
    /\ resp' = [Reply("login", WrongPassword, BurstUser, out.status, out.detail,
                      out.event, <<>>)
                  EXCEPT !.pre = LockSeen(row)]
    /\ UNCHANGED <<now, reset_tokens, jwts, streak, tripTime, consumed, limiterVars, pending>>

\* ------------------------------------------------------ InMemoryRateLimiter
NoTask == "none"
CheckTasks == {"t1", "t2"}

\* asyncio.sleep(60) in cleanup()
SweepPeriod == 60

\* self.requests[key] on a defaultdict(list)
Entries(table, key) == IF key \in DOMAIN table THEN table[key] ELSE <<>>

\* self.requests[key] = timestamps
Put(table, key, timestamps) ==
    [k \in DOMAIN table \cup {key} |-> IF k = key THEN timestamps ELSE table[k]]

\* the boundary of the window counted in
Fresh_Inclusive(timestamps, t, window) ==
    SelectSeq(timestamps, LAMBDA req_time : req_time >= t - window * Hz)

\* [req_time for req_time in timestamps if req_time > now - window], the
\* window given in seconds
Fresh(timestamps, t, window) ==
    SelectSeq(timestamps, LAMBDA req_time : req_time > t - window * Hz)

\* min(timestamps)
Oldest(timestamps) ==
    CHOOSE m \in {timestamps[i] : i \in 1..Len(timestamps)} :
        \A i \in 1..Len(timestamps) : m <= timestamps[i]

\* int(x) of a span of x/Hz seconds, x >= 0
WholeSeconds(x) == x \div Hz

\* a limiter that records the attempts it rejects
Decision_Counting(kept, limit, window, t) ==
    LET current_count == Len(kept) IN
    IF current_count >= limit
    THEN [ timestamps |-> Append(kept, t), is_limited |-> TRUE, remaining |-> 0,
           reset_time |-> WholeSeconds((IF kept # <<>> THEN Oldest(kept) ELSE t)
                                       + window * Hz - t) ]
    ELSE [ timestamps |-> Append(kept, t), is_limited |-> FALSE,
           remaining |-> limit - current_count - 1, reset_time |-> window ]

\* lines 52-65 on the pruned list: the list it leaves and the tuple it returns
Decision(kept, limit, window, t) ==
    LET current_count == Len(kept) IN
    IF current_count >= limit
    THEN [ timestamps |-> kept, is_limited |-> TRUE, remaining |-> 0,
           reset_time |-> WholeSeconds((IF kept # <<>> THEN Oldest(kept) ELSE t)
                                       + window * Hz - t) ]
    ELSE [ timestamps |-> Append(kept, t), is_limited |-> FALSE,
           remaining |-> limit - current_count - 1, reset_time |-> window ]

\* is_rate_limited(key, limit, window) run without interruption at time t
is_rate_limited(table, key, limit, window, t) ==
    LET out == Decision(Fresh(Entries(table, key), t, window), limit, window, t)
    IN [ requests |-> Put(table, key, out.timestamps), is_limited |-> out.is_limited,
         remaining |-> out.remaining, reset_time |-> out.reset_time ]

\* history: the admitted checks on key that lie in the trailing window at t
CountedAt(key, t) ==
    LET b == [e \in {x \in DOMAIN admitted : x.key = key /\ x.t > t - x.window * Hz}
                |-> admitted[e]]
    IN BagSize(b)

\* history: the admissions some window still counts at t
StillCounted(b, t) == [e \in {x \in DOMAIN b : x.t > t - x.window * Hz} |-> b[e]]

Admission(key, t, window) == [key |-> key, t |-> t, window |-> window]

\* the reply of the limiter, with what stood before the check
Verdict(key, out, limit, window) ==
    [Reply("is_rate_limited", key, NoUser, 0,
           <<out.is_limited, out.remaining, out.reset_time>>, "", <<>>)
       EXCEPT !.pre = [ counted |-> CountedAt(key, now),
                        first |-> IF Entries(requests, key) = <<>> THEN NoTime
                                  ELSE Oldest(Entries(requests, key)),
                        limit |-> limit, window |-> window ]]

\* asyncio.Lock: free to take
LockFree_Always(l) == TRUE

LockFree(l) == l = NoTask

IdleTask == [pc |-> "idle", key |-> <<>>, limit |-> 0, window |-> 0, t |-> NoTime,
             seen |-> <<>>, result |-> <<>>]
NoCleanup == [pc |-> "none", t |-> NoTime, wake |-> NoTime, keys_to_remove |-> {}]

\* one caller at a time: a whole call of is_rate_limited(key, limit, window)
CheckLimit(key) ==
    LET out == is_rate_limited(requests, key, quota.limit, quota.window, now) IN
    /\ LockFree(lock)
    /\ requests' = out.requests
    /\ admitted' = IF out.is_limited THEN admitted
                   ELSE BagAdd(admitted, Admission(key, now, quota.window))
    /\ resp' = Verdict(key, out, quota.limit, quota.window)
    /\ UNCHANGED <<now, accountVars, lock, tasks, cleanup, quota, raceVars>>

\* ------------------------------------------------------ RateLimitMiddleware
\* a path is the sequence of the pieces of its string, so that
\* str.startswith is the prefix order on sequences
HealthPath == <<"/health">>
RootPath == <<"/">>
DocsPath == <<"/api/v1/", "docs">>
RedocPath == <<"/api/v1/", "redoc">>
OpenApiPath == <<"/api/v1/", "openapi.json">>
LoginPath == <<"/api/v1/", "auth/", "login">>
RegisterPath == <<"/api/v1/", "auth/", "register">>
PasswordResetPath == <<"/api/v1/", "auth/", "password-reset">>
PasswordResetRequestPath == <<"/api/v1/", "auth/", "password-reset", "-request">>
MePath == <<"/api/v1/", "auth/", "me">>

EXEMPT_PATHS == {HealthPath, RootPath, DocsPath, RedocPath, OpenApiPath}

STRICT_PATHS ==
    << [path |-> LoginPath, limits |-> <<5, 60>>],
       [path |-> RegisterPath, limits |-> <<3, 60>>],
       [path |-> PasswordResetPath, limits |-> <<3, 300>>] >>

\* path.startswith(prefix)
StartsWith(path, prefix) ==
    Len(prefix) <= Len(path) /\ SubSeq(path, 1, Len(prefix)) = prefix

\* the strict limits only for the strict paths themselves
_get_rate_limit_Exact(path) ==
    LET hits == {i \in 1..Len(STRICT_PATHS) : path = STRICT_PATHS[i].path}
    IN IF hits = {} THEN <<RATE_LIMIT_REQUESTS, RATE_LIMIT_WINDOW_SECONDS>>
       ELSE STRICT_PATHS[CHOOSE i \in hits : \A j \in hits : i <= j].limits

\* (limit, window) of the first strict path the path starts with, else the
\* default
_get_rate_limit(path) ==
    LET hits == {i \in 1..Len(STRICT_PATHS) : StartsWith(path, STRICT_PATHS[i].path)}
    IN IF hits = {} THEN <<RATE_LIMIT_REQUESTS, RATE_LIMIT_WINDOW_SECONDS>>
       ELSE STRICT_PATHS[CHOOSE i \in hits : \A j \in hits : i <= j].limits

\* request.state as the middleware finds it: no attribute set
FreshState == [user_id |-> ""]

NoCredentials == [type |-> "none"]

\* "user:<id>" from request.state, else "ip:<first X-Forwarded-For>", else
\* "ip:<peer address>"
_get_client_identifier(state, request) ==
    IF state.user_id # "" THEN <<"user", state.user_id>>
    ELSE IF request.forwarded # <<>> THEN <<"ip", request.forwarded[1]>>
    ELSE IF request.client # "" THEN <<"ip", request.client>>
    ELSE <<"ip", "unknown">>

RECURSIVE TableLoad(_)
TableLoad(table) ==
    IF DOMAIN table = {} THEN 0
    ELSE LET k == CHOOSE x \in DOMAIN table : TRUE
         IN Len(table[k]) + TableLoad([x \in DOMAIN table \ {k} |-> table[x]])

\* the routes that take GET, and the routes under /auth that take POST only
GetRoutes == EXEMPT_PATHS \cup {MePath}
PostRoutes == {LoginPath, RegisterPath, PasswordResetPath, PasswordResetRequestPath}

\* call_next(request): the route, which runs after the middleware has chosen
\* its key. GET /auth/me resolves the bearer token and only then sets
\* request.state.user_id. The requests of the model carry no body: a POST to
\* a route that takes one fails validation before its handler runs.
Route(request, t) ==
    IF request.path \notin GetRoutes \cup PostRoutes
    THEN [user |-> NoUser, status |-> 404, detail |-> <<"Not Found">>, unlock |-> FALSE]
    ELSE IF request.method = "POST" /\ request.path \in PostRoutes
    THEN [user |-> NoUser, status |-> 422, detail |-> <<"Field required">>,
          unlock |-> FALSE]
    ELSE IF request.method # "GET" \/ request.path \notin GetRoutes
    THEN [user |-> NoUser, status |-> 405, detail |-> <<"Method Not Allowed">>,
          unlock |-> FALSE]
    ELSE IF request.path = HealthPath
    THEN [user |-> NoUser, status |-> 200, detail |-> <<"healthy">>, unlock |-> FALSE]
    ELSE IF request.path \in EXEMPT_PATHS
    THEN [user |-> NoUser, status |-> 200, detail |-> <<"ok">>, unlock |-> FALSE]
    ELSE IF request.token = NoCredentials
    THEN [user |-> NoUser, status |-> 401, detail |-> <<"Authorization header missing">>,
          unlock |-> FALSE]
    ELSE CurrentUser(request.token, t)

\* RateLimitMiddleware.dispatch, while the table holds at most cap timestamps
DispatchUpTo(request, cap) ==
    LET client_id == _get_client_identifier(FreshState, request)
        limits == _get_rate_limit(request.path)
        rate_key == <<"rate_limit", client_id, request.path>>
        gated == request.path \notin EXEMPT_PATHS /\ request.method # "OPTIONS"
        out == is_rate_limited(requests, rate_key, limits[1], limits[2], now)
        limited == gated /\ out.is_limited
        got == Route(request, now \div Hz)
        state == [user_id |-> IF got.user # NoUser THEN got.user ELSE ""]
    IN
    /\ gated => (LockFree(lock) /\ TableLoad(out.requests) <= cap)
    /\ requests' = IF gated THEN out.requests ELSE requests
    /\ admitted' = IF gated /\ ~out.is_limited
                   THEN BagAdd(admitted, Admission(rate_key, now, limits[2]))
                   ELSE admitted
    /\ users' = IF ~limited /\ got.unlock
                THEN [users EXCEPT ![got.user] = Unlocked(@)] ELSE users
    /\ resp' = IF limited
               THEN [Reply("dispatch", request, NoUser, 429,
                           <<"Too many requests. Please try again later.", out.reset_time>>,
                           "", <<>>)
                       EXCEPT !.pre = [rate_key |-> rate_key, state |-> FreshState,
                                       limits |-> limits,
                                       headers |-> <<out.reset_time, limits[1], 0,
                                                     (now \div Hz) + out.reset_time>>]]
               ELSE [Reply("dispatch", request, got.user, got.status, got.detail, "", <<>>)
                       EXCEPT !.pre = [rate_key |-> IF gated THEN rate_key ELSE <<>>,
                                       state |-> state,
                                       limits |-> IF gated THEN limits ELSE <<>>,
                                       headers |-> IF gated
                                                   THEN <<limits[1], out.remaining,
                                                          (now \div Hz) + out.reset_time>>
                                                   ELSE <<>>]]
    /\ UNCHANGED <<now, reset_tokens, jwts, streak, tripTime, consumed>>
    /\ UNCHANGED <<lock, tasks, cleanup, quota, raceVars>>

Dispatch(request) == DispatchUpTo(request, MaxTraffic)

\* a middleware that runs the route whatever the limiter said
Forwards_Always(is_limited) == TRUE

\* "if is_limited: return JSONResponse(...)": call_next is reached only past it
Forwards(is_limited) == ~is_limited

\* RateLimitMiddleware.dispatch in front of POST /auth/login carrying a body
DispatchLogin(client, ident, password) ==
    LET request == [method |-> "POST", path |-> LoginPath, client |-> client,
                    forwarded |-> <<>>, token |-> NoCredentials]
        client_id == _get_client_identifier(FreshState, request)
        limits == _get_rate_limit(request.path)
        rate_key == <<"rate_limit", client_id, request.path>>
        out == is_rate_limited(requests, rate_key, limits[1], limits[2], now)
        done == LoginResult(ident, password, FALSE, now \div Hz)
    IN
    /\ LockFree(lock)
    /\ requests' = out.requests
    /\ admitted' = IF out.is_limited THEN admitted
                   ELSE BagAdd(admitted, Admission(rate_key, now, limits[2]))
    /\ users' = IF Forwards(out.is_limited) THEN done.users ELSE users
    /\ streak' = IF Forwards(out.is_limited) THEN done.streak ELSE streak
    /\ tripTime' = IF Forwards(out.is_limited) THEN done.tripTime ELSE tripTime
    /\ resp' = IF out.is_limited
               THEN [Reply("dispatch", request, NoUser, 429,
                           <<"Too many requests. Please try again later.", out.reset_time>>,
                           "", <<>>)
                       EXCEPT !.pre = [rate_key |-> rate_key, state |-> FreshState,
                                       limits |-> limits,
                                       body |-> [username |-> ident, password |-> password],
                                       headers |-> <<out.reset_time, limits[1], 0,
                                                     (now \div Hz) + out.reset_time>>]]
               ELSE done.resp
    /\ UNCHANGED <<now, reset_tokens, jwts, consumed>>
    /\ UNCHANGED <<lock, tasks, cleanup, quota, raceVars>>

\* is_rate_limited() statement by statement, for callers that overlap.
\* The call: the coroutine is created and stands at "async with self._lock".
Call(task, key) ==
    /\ tasks[task].pc = "idle"
    /\ tasks' = [tasks EXCEPT ![task] =
                    [IdleTask EXCEPT !.pc = "acquire", !.key = key,
                                     !.limit = quota.limit, !.window = quota.window]]
    /\ resp' = Reply("call", key, NoUser, 0, <<task>>, "", <<>>)
    /\ UNCHANGED <<now, accountVars, requests, lock, cleanup, admitted, quota, raceVars>>

\* the lock is taken; now = time.time()
Acquire(task) ==
    /\ tasks[task].pc = "acquire"
    /\ LockFree(lock)
    /\ lock' = task
    /\ tasks' = [tasks EXCEPT ![task].pc = "prune", ![task].t = now,
                              ![task].seen = Entries(requests, tasks[task].key)]
    /\ resp' = Reply("acquire", tasks[task].key, NoUser, 0, <<task>>, "", <<>>)
    /\ UNCHANGED <<now, accountVars, requests, cleanup, admitted, quota, raceVars>>

\* self.requests[key] = [... if req_time > window_start]
Prune(task) ==
    LET c == tasks[task] IN
    /\ c.pc = "prune"
    /\ requests' = Put(requests, c.key, Fresh(Entries(requests, c.key), c.t, c.window))
    /\ tasks' = [tasks EXCEPT ![task].pc = "decide"]
    /\ resp' = Reply("prune", c.key, NoUser, 0, <<task>>, "", <<>>)
    /\ UNCHANGED <<now, accountVars, lock, cleanup, admitted, quota, raceVars>>

\* current_count = len(self.requests[key]) and the branch it takes
Decide(task) ==
    LET c == tasks[task]
        out == Decision(Entries(requests, c.key), c.limit, c.window, c.t)
    IN
    /\ c.pc = "decide"
    /\ requests' = Put(requests, c.key, out.timestamps)
    /\ admitted' = IF out.is_limited THEN admitted
                   ELSE BagAdd(admitted, Admission(c.key, c.t, c.window))
    /\ tasks' = [tasks EXCEPT ![task].pc = "release",
                              ![task].result = <<out.is_limited, out.remaining, out.reset_time>>]
    /\ resp' = Reply("decide", c.key, NoUser, 0, <<task>>, "", <<>>)
    /\ UNCHANGED <<now, accountVars, lock, cleanup, quota, raceVars>>

\* the return leaves the "async with" block
Release(task) ==
    LET c == tasks[task] IN
    /\ c.pc = "release"
    /\ lock' = IF lock = task THEN NoTask ELSE lock
    /\ tasks' = [tasks EXCEPT ![task] = IdleTask]
    /\ resp' = [Reply("is_rate_limited", c.key, NoUser, 0, c.result, "", <<>>)
                  EXCEPT !.pre = [task |-> task, seen |-> c.seen, t |-> c.t,
                                  limit |-> c.limit, window |-> c.window]]
    /\ UNCHANGED <<now, accountVars, requests, cleanup, admitted, quota, raceVars>>

\* cleanup() scheduled as a task: it starts with its first sleep
SleepingCleanup(t) == [NoCleanup EXCEPT !.pc = "sleep", !.wake = t + SweepPeriod * Hz]

\* await asyncio.sleep(60) returns
SweepWake ==
    /\ cleanup.pc = "sleep"
    /\ now >= cleanup.wake
    /\ cleanup' = [cleanup EXCEPT !.pc = "acquire"]
    /\ resp' = Reply("cleanup", <<>>, NoUser, 0, <<"wake">>, "", <<>>)
    /\ UNCHANGED <<now, accountVars, requests, lock, tasks, admitted, quota, raceVars>>

SweepAcquire ==
    /\ cleanup.pc = "acquire"
    /\ LockFree(lock)
    /\ lock' = "cleanup"
    /\ cleanup' = [cleanup EXCEPT !.pc = "scan", !.t = now]
    /\ resp' = Reply("cleanup", <<>>, NoUser, 0, <<"acquire">>, "", <<>>)
    /\ UNCHANGED <<now, accountVars, requests, tasks, admitted, quota, raceVars>>

\* the loop over self.requests.items(), with the default window
SweepScan ==
    LET kept == [k \in DOMAIN requests |->
                    Fresh(requests[k], cleanup.t, RATE_LIMIT_WINDOW_SECONDS)]
    IN
    /\ cleanup.pc = "scan"
    /\ requests' = kept
    /\ cleanup' = [cleanup EXCEPT !.pc = "delete",
                                  !.keys_to_remove = {k \in DOMAIN kept : kept[k] = <<>>}]
    /\ resp' = Reply("cleanup", <<>>, NoUser, 0, <<"scan">>, "", <<>>)
    /\ UNCHANGED <<now, accountVars, lock, tasks, admitted, quota, raceVars>>

\* del self.requests[key] for the keys marked, and the block is left
SweepDelete ==
    /\ cleanup.pc = "delete"
    /\ requests' = [k \in DOMAIN requests \ cleanup.keys_to_remove |-> requests[k]]
    /\ lock' = IF lock = "cleanup" THEN NoTask ELSE lock
    /\ cleanup' = SleepingCleanup(now)
    /\ resp' = Reply("cleanup", <<>>, NoUser, 0, <<"delete", cleanup.keys_to_remove>>, "", <<>>)
    /\ UNCHANGED <<now, accountVars, tasks, admitted, quota, raceVars>>

\* ------------------------------------------------------------------ clock
Tick(step, ticks) ==
    /\ now < step * ticks
    /\ now' = now + step
    /\ resp' = Reply("tick", <<>>, NoUser, 0, <<>>, "", <<>>)
    /\ admitted' = StillCounted(admitted, now + step)
    /\ UNCHANGED <<accountVars, requests, lock, tasks, cleanup, quota, raceVars>>

\* --------------------------------------------------------- specifications
\* InMemoryRateLimiter(): an empty table, a free lock, nothing running
LimiterIdle ==
    /\ requests = [k \in {} |-> <<>>]
    /\ lock = NoTask
    /\ tasks = [x \in CheckTasks |-> IdleTask]
    /\ cleanup = NoCleanup
    /\ admitted = [e \in {} |-> 0]
    /\ quota = [limit |-> RATE_LIMIT_REQUESTS, window |-> RATE_LIMIT_WINDOW_SECONDS]

\* no burst of logins under way
NoBurst ==
    /\ pending = 0
    /\ inflight = [r \in {} |-> 0]
    /\ tally = NoTally

\* one registered account, not yet verified
Init ==
    /\ now = 0
    /\ users = [u \in UserIds |-> NewUser(u)]
    /\ reset_tokens = <<>>
    /\ jwts = {}
    /\ resp = Reply("init", <<>>, NoUser, 0, <<>>, "", <<>>)
    /\ streak = [u \in UserIds |-> 0]
    /\ tripTime = [u \in UserIds |-> NoTime]
    /\ consumed = {}
    /\ LimiterIdle
    /\ NoBurst

\* the account and its lock
Next ==
    \/ \E ident \in Identities, password \in Passwords : Login(ident, password)
    \/ \E u \in UserIds : VerifyEmail(u)
    \/ \E u \in UserIds : ToggleUserActive(u)
    \/ Tick(AuthTick, AuthMaxTicks)

Spec == Init /\ [][Next]_vars

\* the two password-reset flows
ResetNext ==
    \/ \E email \in Identities : ForgotPassword(email)
    \/ \E token \in Presentable, pw \in NewPasswords : ResetPassword(token, pw)
    \/ \E email \in Identities : CreatePasswordResetToken(email)
    \/ \E token \in Presentable, pw \in NewPasswords : PasswordResetLegacy(token, pw)
    \/ Tick(ResetTick, ResetMaxTicks)

ResetSpec == Init /\ [][ResetNext]_vars

\* bearer tokens and the endpoints that take them, from the moment the
\* account's e-mail address has been verified
TokenInit ==
    /\ now = 0
    /\ users = [u \in UserIds |-> [NewUser(u) EXCEPT !.is_verified = TRUE]]
    /\ reset_tokens = <<>>
    /\ jwts = {}
    /\ resp = Reply("verify_email", <<>>, NoUser, 200, <<"Email verified successfully">>, "", <<>>)
    /\ streak = [u \in UserIds |-> 0]
    /\ tripTime = [u \in UserIds |-> NoTime]
    /\ consumed = {}
    /\ LimiterIdle
    /\ NoBurst

TokenNext ==
    \/ \E ident \in Identities, password \in Passwords : Login(ident, password)
    \/ \E u \in UserIds : ToggleUserActive(u)
    \/ \E i \in 1..2 : Receive(i)
    \/ \E token \in Presentable : GetMe(token)
    \/ \E token \in Presentable : RefreshToken(token)
    \/ \E email \in Identities : CreatePasswordResetToken(email)
    \/ \E token \in Presentable, pw \in NewPasswords : PasswordResetLegacy(token, pw)
    \/ \E token \in Presentable, pw \in NewPasswords : ResetPassword(token, pw)
    \/ Tick(TokenTick, TokenMaxTicks)

TokenSpec == TokenInit /\ [][TokenNext]_vars

\* an account that is locked out and recovered within the lockout and within
\* the life of its reset tokens: logins, the administrator's switch, and the
\* reset flows asked for by address
RecoveryEmails == Identities \cup {"ghost@penlet.ug"}

RecoveryNext ==
    \/ \E ident \in Identities, password \in Passwords : Login(ident, password)
    \/ \E u \in UserIds : ToggleUserActive(u)
    \/ \E email \in RecoveryEmails : ForgotPassword(email)
    \/ \E email \in RecoveryEmails : RequestPasswordReset(email)
    \/ \E token \in Presentable, pw \in NewPasswords : ResetPassword(token, pw)
    \/ \E email \in Identities : CreatePasswordResetToken(email)
    \/ \E token \in Presentable, pw \in NewPasswords : PasswordResetLegacy(token, pw)

RecoverySpec == TokenInit /\ [][RecoveryNext]_vars

\* registrations beside the logins of the first account, with an audit log
\* that may fail
RegEmails == {"ALICE@PENLET.UG", "bob@penlet.ug", "carol@penlet.ug"}
RegUsernames == {"ALICE", "bob", "carol"}
Registrations ==
    [ email : RegEmails, username : RegUsernames, password : {PwB},
      role : {"student"}, student_class : {"S1"} ]
    \cup [ email : {"bob@penlet.ug"}, username : {"bob"}, password : {PwB, PwSeq, PwShort},
           role : {"student", "teacher", "admin"}, student_class : {"", "S1"} ]

SignupNext ==
    \/ \E user_data \in Registrations, audit_raises \in BOOLEAN :
          Register(user_data, audit_raises)
    \/ \E ident \in Identities, password \in Passwords, audit_raises \in BOOLEAN :
          LoginAudited(ident, password, audit_raises)

SignupSpec == TokenInit /\ [][SignupNext]_vars

\* an account from its registration on, and the tokens of its sessions; the
\* clock steps by the lifetime of an access token, which is also the lockout
SessionTick == AccessTtl

SessionNext ==
    \/ \E ident \in Identities, password \in Passwords : Login(ident, password)
    \/ \E u \in UserIds : VerifyEmail(u)
    \/ \E u \in UserIds : ToggleUserActive(u)
    \/ \E u \in UserIds : DeleteUser(u)
    \/ \E i \in 1..2 : Receive(i)
    \/ \E token \in Presentable : GetMe(token)
    \/ \E token \in Presentable : Logout(token)
    \/ \E token \in Presentable : RefreshToken(token)
    \/ Tick(SessionTick, SessionMaxTicks)

SessionSpec == Init /\ [][SessionNext]_vars

\* the limiter alone, called by one caller at a time with a fixed limit and
\* window on one key
TheKey == <<"rate_limit", <<"ip", "10.0.0.1">>, LoginPath>>

LimiterInit ==
    /\ now = 0
    /\ resp = Reply("init", <<>>, NoUser, 0, <<>>, "", <<>>)
    /\ users = [u \in UserIds |-> NewUser(u)]
    /\ reset_tokens = <<>>
    /\ jwts = {}
    /\ streak = [u \in UserIds |-> 0]
    /\ tripTime = [u \in UserIds |-> NoTime]
    /\ consumed = {}
    /\ requests = [k \in {} |-> <<>>]
    /\ lock = NoTask
    /\ tasks = [x \in CheckTasks |-> IdleTask]
    /\ cleanup = NoCleanup
    /\ admitted = [e \in {} |-> 0]
    /\ quota \in [limit : 1..MaxLimit, window : Windows]
    /\ NoBurst

LimiterNext ==
    \/ CheckLimit(TheKey)
    \/ Tick(LimiterTick * Hz, LimiterMaxTicks)

LimiterSpec == LimiterInit /\ [][LimiterNext]_vars

\* the limiter under overlapping callers of one key, with cleanup() running
\* as a task beside them
ConcInit ==
    /\ now = 0
    /\ resp = Reply("init", <<>>, NoUser, 0, <<>>, "", <<>>)
    /\ users = [u \in UserIds |-> NewUser(u)]
    /\ reset_tokens = <<>>
    /\ jwts = {}
    /\ streak = [u \in UserIds |-> 0]
    /\ tripTime = [u \in UserIds |-> NoTime]
    /\ consumed = {}
    /\ requests = [k \in {} |-> <<>>]
    /\ lock = NoTask
    /\ tasks = [x \in CheckTasks |-> IdleTask]
    /\ cleanup = SleepingCleanup(0)
    /\ admitted = [e \in {} |-> 0]
    /\ quota \in [limit : 1..ConcMaxLimit, window : Windows]
    /\ NoBurst

ConcNext ==
    \/ \E task \in CheckTasks : Call(task, TheKey)
    \/ \E task \in CheckTasks : Acquire(task)
    \/ \E task \in CheckTasks : Prune(task)
    \/ \E task \in CheckTasks : Decide(task)
    \/ \E task \in CheckTasks : Release(task)
    \/ SweepWake
    \/ SweepAcquire
    \/ SweepScan
    \/ SweepDelete
    \/ Tick(ConcTick * Hz, ConcMaxTicks)

ConcSpec == ConcInit /\ [][ConcNext]_vars

\* the service as main.py starts it: the limiter behind the middleware, the
\* account verified and logged in at startup time, requests arriving for as
\* long as the service runs
Peers == {"10.0.0.1"}
ForwardedFor == {<<>>, <<"203.0.113.9", "10.0.0.1">>}

ServiceRequests ==
    [ method : {"GET", "OPTIONS"}, path : {HealthPath, MePath, RegisterPath}, client : Peers,
      forwarded : ForwardedFor, token : {NoCredentials} \cup jwts ]

ServiceInit ==
    /\ now = 0
    /\ resp = Reply("init", <<>>, NoUser, 0, <<>>, "", <<>>)
    /\ users = [u \in UserIds |->
                  [NewUser(u) EXCEPT !.is_verified = TRUE, !.last_login = 0]]
    /\ reset_tokens = <<>>
    /\ jwts = {create_access_token(u, Roles[u], 0) : u \in UserIds}
    /\ streak = [u \in UserIds |-> 0]
    /\ tripTime = [u \in UserIds |-> NoTime]
    /\ consumed = {}
    /\ LimiterIdle
    /\ NoBurst

ServiceNext ==
    \/ \E request \in ServiceRequests : Dispatch(request)
    \/ Tick(ServiceTick * Hz, ServiceMaxTicks)

\* the service keeps serving and its clock keeps running
ServiceSpec ==
    /\ ServiceInit
    /\ [][ServiceNext]_vars
    /\ WF_vars(ServiceNext)
    /\ WF_vars(Tick(ServiceTick * Hz, ServiceMaxTicks))

\* the middleware in front of every kind of route: exempt, strict and
\* default paths, GET, POST and OPTIONS, on a clock read after each window
GateRequests ==
    [ method : {"GET", "POST", "OPTIONS"},
      path : {HealthPath, DocsPath, LoginPath, RegisterPath, PasswordResetPath,
              PasswordResetRequestPath, MePath},
      client : Peers, forwarded : {<<>>}, token : {NoCredentials} ]

GateWindow == RATE_LIMIT_WINDOW_SECONDS * Hz

\* the clock runs on to the end of the current window
RunOn ==
    /\ now < GateWindow * GateMaxTicks
    /\ now' = ((now \div GateWindow) + 1) * GateWindow
    /\ resp' = Reply("tick", <<>>, NoUser, 0, <<>>, "", <<>>)
    /\ admitted' = StillCounted(admitted, ((now \div GateWindow) + 1) * GateWindow)
    /\ UNCHANGED <<accountVars, requests, lock, tasks, cleanup, quota, raceVars>>

GateNext ==
    \/ \E request \in GateRequests : DispatchUpTo(request, GateTraffic)
    \/ RunOn

GateSpec == ServiceInit /\ [][GateNext]_vars

\* logins that pass through the middleware, from two addresses
FrontPeers == {"10.0.0.1", "10.0.0.2"}

FrontNext ==
    \/ \E client \in FrontPeers, ident \in Identities, password \in Passwords :
          DispatchLogin(client, ident, password)
    \/ RunOn

FrontSpec == ServiceInit /\ [][FrontNext]_vars

\* the login route called again and again, on a clock that is also read
\* between the seconds
RetryRequests ==
    [ method : {"GET", "POST"}, path : {LoginPath, MePath},
      client : Peers, forwarded : {<<>>}, token : {NoCredentials} ]

RetryNext ==
    \/ \E request \in RetryRequests : DispatchUpTo(request, RetryTraffic)
    \/ Tick(1, RetryFineTicks)
    \/ RunOn

RetrySpec == ServiceInit /\ [][RetryNext]_vars

\* BurstSize wrong-password logins sent at the same instant to an account
\* that is active, verified and not locked
RaceInit ==
    /\ now = 0
    /\ resp = Reply("init", <<>>, NoUser, 0, <<>>, "", <<>>)
    /\ \E n \in 0..(MAX_LOGIN_ATTEMPTS - 1) :
          /\ users = [u \in UserIds |->
                        [NewUser(u) EXCEPT !.is_verified = TRUE,
                                           !.failed_login_attempts = n]]
          /\ tally = [NoTally EXCEPT !.start = n]
    /\ reset_tokens = <<>>
    /\ jwts = {}
    /\ streak = [u \in UserIds |-> 0]
    /\ tripTime = [u \in UserIds |-> NoTime]
    /\ consumed = {}
    /\ LimiterIdle
    /\ pending = BurstSize
    /\ inflight = [r \in {} |-> 0]

RaceNext ==
    \/ LoginLoad
    \/ \E row \in DOMAIN inflight : LoginFinish(row)

RaceSpec == RaceInit /\ [][RaceNext]_vars

\* ------------------------------------------------------------------ claims
Known(ident) == FindUser(Lower(ident)) # NoUser

\* C1: once a user has made MAX_LOGIN_ATTEMPTS wrong-password logins in a row,
\* the account is locked until the moment of the last one plus the lockout
\* duration, and every login before that moment, whatever its password,
\* is answered 423 AccountLocked.
C1_LockedOutAfterMaxAttempts ==
    /\ [](\A u \in UserIds :
            InLockout(u, now) =>
                /\ users[u].is_locked
                /\ users[u].locked_until = tripTime[u] + LockoutSeconds
                /\ now < users[u].locked_until)
    /\ [][\A ident \in Identities, password \in Passwords :
            (Login(ident, password) /\ Known(ident)
                /\ InLockout(FindUser(Lower(ident)), now))
            => (resp'.status = 423 /\ users' = users)]_vars

\* a login with the right password, on an active and verified account, was
\* turned away because of the streak
C1_Witness ==
    /\ resp.op = "login"
    /\ resp.user # NoUser
    /\ resp.status = 423
    /\ InLockout(resp.user, now)
    /\ verify_password(resp.arg, users[resp.user].hashed_password)
    /\ users[resp.user].is_active
    /\ users[resp.user].is_verified

\* C5: a login with a wrong password for an identity that exists is answered
\* exactly as a login for an identity that does not exist (same status, same
\* message), whatever the state of the account.
C5_NoEnumeration ==
    (resp.op = "login" /\ resp.user # NoUser
        /\ ~verify_password(resp.arg, users[resp.user].hashed_password))
    => (resp.status = UnknownIdentity.status /\ resp.detail = UnknownIdentity.detail)

\* C8: a login with the right password on an active, verified account whose
\* lockout has run out (now >= locked_until) is answered 200 with an access and
\* a refresh token, and leaves the account unlocked, failed_login_attempts 0
\* and locked_until cleared.
C8_LoginAfterExpiry ==
    [][\A ident \in Identities, password \in Passwords :
        LET u == FindUser(Lower(ident)) IN
        (/\ Login(ident, password)
         /\ u # NoUser
         /\ users[u].is_locked
         /\ users[u].locked_until # NoTime
         /\ now >= users[u].locked_until
         /\ verify_password(password, users[u].hashed_password)
         /\ users[u].is_active
         /\ users[u].is_verified)
        => (/\ resp'.status = 200
            /\ Len(resp'.tokens) = 2
            /\ resp'.tokens[1].type = "access"
            /\ resp'.tokens[1].sub = u
            /\ resp'.tokens[2].type = "refresh"
            /\ resp'.tokens[2].sub = u
            /\ ~users'[u].is_locked
            /\ users'[u].failed_login_attempts = 0
            /\ users'[u].locked_until = NoTime)]_vars

\* the login that found the account still marked locked, after the lockout
\* had run out, and succeeded
C8_Witness ==
    /\ resp.op = "login"
    /\ resp.user # NoUser
    /\ resp.status = 200
    /\ resp.pre.is_locked
    /\ resp.pre.failed_login_attempts = MAX_LOGIN_ATTEMPTS
    /\ users[resp.user].last_login = now
    /\ ~users[resp.user].is_locked

\* C6: a token that has completed a password reset completes no second one,
\* neither on /auth/reset-password nor on the legacy /auth/password-reset.
C6_ResetTokenSingleUse ==
    [][\A token \in consumed, pw \in NewPasswords :
        (ResetPassword(token, pw) \/ PasswordResetLegacy(token, pw))
        => resp'.status # 200]_vars

\* C10: /auth/refresh answers 200 only to a refresh token, the current-user
\* dependency only to an access token, and the legacy token-based password
\* reset only to a password_reset token; a persisted reset never accepts a
\* signed token of any type.
C10_TokenTypesNotInterchangeable ==
    /\ (resp.op = "refresh" /\ resp.arg.type # "refresh") => resp.status = 401
    /\ (resp.op = "me" /\ resp.arg.type # "access") => resp.status = 401
    /\ (resp.op = "password_reset_legacy" /\ resp.arg.type # "password_reset")
          => resp.status = 400
    /\ (resp.op = "reset_password" /\ resp.arg.type # "opaque") => resp.status = 400

\* a validly signed, unexpired access token of an active user was presented
\* to /auth/refresh and turned away
C10_Witness ==
    /\ resp.op = "refresh"
    /\ resp.status = 401
    /\ resp.arg.type = "access"
    /\ decode_token(resp.arg, now) # NoPayload
    /\ resp.arg.sub \in DOMAIN users
    /\ users[resp.arg.sub].is_active

\* C3: with a fixed limit N and window W on one key, a check is refused
\* exactly when N checks have been admitted in the trailing W seconds (so the
\* first N within a window pass and the next is refused), at no instant do the
\* trailing W seconds hold more than N admitted checks, and a check made more
\* than W seconds after the oldest request the table holds is admitted.
C3_SlidingWindow ==
    /\ CountedAt(TheKey, now) <= quota.limit
    /\ resp.op = "is_rate_limited" =>
         /\ resp.detail[1] = (resp.pre.counted >= quota.limit)
         /\ (resp.pre.first # NoTime /\ now > resp.pre.first + quota.window * Hz)
               => ~resp.detail[1]

\* a full window was refused, and later a check made more than W seconds
\* after the oldest request was admitted while the table still held it
C3_Witness ==
    /\ resp.op = "is_rate_limited"
    /\ quota.limit > 1
    /\ ~resp.detail[1]
    /\ resp.pre.first # NoTime
    /\ now > resp.pre.first + quota.window * Hz
    /\ resp.pre.counted = quota.limit - 1

InBlock(task) == tasks[task].pc \in {"prune", "decide", "release"}

C4_KeyClassBySubject ==
    (resp.op = "dispatch" /\ resp.pre.rate_key # <<>>) =>
        LET subject == IF resp.arg.token = NoCredentials THEN NoUser
                       ELSE CurrentUser(resp.arg.token, now \div Hz).user
        IN resp.pre.rate_key[2] =
              IF subject # NoUser THEN <<"user", subject>>
              ELSE _get_client_identifier(FreshState, resp.arg)

ServiceKeys ==
    { <<"rate_limit", <<"ip", ip>>, path>> :
        ip \in Peers \cup {"203.0.113.9"}, path \in {MePath, RegisterPath} }
    \cup { <<"rate_limit", <<"user", u>>, MePath>> : u \in UserIds }

Aged(key) ==
    /\ key \in DOMAIN requests
    /\ Fresh(requests[key], now, _get_rate_limit(key[3])[2]) = <<>>

\* C7: while the service serves requests, every key whose timestamps have all
\* left the window is eventually removed from the table.
C7_AgedKeysRemoved ==
    \A key \in ServiceKeys : Aged(key) ~> (key \notin DOMAIN requests)

BurstDone == pending = 0 /\ DOMAIN inflight = {}

\* C2: once all 2 * MAX_LOGIN_ATTEMPTS simultaneous wrong-password logins
\* have been answered, the account is locked, exactly one of them tripped the
\* lock, and failed_login_attempts counts every login that got as far as the
\* password check.
C2_BurstLinearizable ==
    BurstDone =>
        /\ users[BurstUser].is_locked
        /\ tally.locked_events = 1
        /\ users[BurstUser].failed_login_attempts = tally.start + tally.increments

Accepts(token) ==
    IF token.type = "refresh"
    THEN /\ IsRefreshPayload(decode_token(token, now))
         /\ token.sub \in DOMAIN users
         /\ users[token.sub].is_active
    ELSE CurrentUser(token, now).status = 200

\* an access or refresh token not past its exp, of a user who is active and
\* not inside a lockout
Live(token) ==
    /\ token.type \in {"access", "refresh"}
    /\ token.exp >= now
    /\ token.sub \in DOMAIN users
    /\ users[token.sub].is_active
    /\ ~(users[token.sub].is_locked /\ LockActive(users[token.sub], now))

\* the users table once get_current_user has resolved token: the resolved
\* user's lock, if it had run out, is cleared
AfterResolving(token) ==
    LET cu == CurrentUser(token, now) IN
    IF cu.unlock THEN [users EXCEPT ![cu.user] = Unlocked(@)] ELSE users

\* what every operation leaves of the tokens: each held token that is live is
\* taken, the endpoint of its type answers 200 exactly to the tokens taken,
\* and a logout or a refresh leaves every held token that was taken still taken
NothingRevoked ==
    /\ [](\A token \in jwts : Live(token) => Accepts(token))
    /\ []((/\ resp.arg \in jwts
            /\ \/ resp.op \in {"me", "logout"} /\ resp.arg.type = "access"
               \/ resp.op = "refresh" /\ resp.arg.type = "refresh")
            => ((resp.status = 200) <=> Accepts(resp.arg)))
    /\ [][\A token \in Presentable :
            (Logout(token) \/ RefreshToken(token))
            => (\A held \in jwts : Accepts(held) => Accepts(held)')]_vars

\* C12 as stated: no operation revokes a token, and a logout changes neither
\* the users table nor any token.
C12_LogoutChangesNothing ==
    /\ NothingRevoked
    /\ [][\A token \in Presentable :
            Logout(token) => UNCHANGED <<users, jwts, reset_tokens>>]_vars

\* C12, amended: no operation revokes a token, and a logout changes no token
\* and nothing of the users table except that it clears the lock of the user
\* it resolves when that lock has run out.
C12_LogoutRevokesNothing ==
    /\ NothingRevoked
    /\ [][\A token \in Presentable :
            Logout(token) => (/\ users' = AfterResolving(token)
                              /\ UNCHANGED <<jwts, reset_tokens>>)]_vars

\* a logout answered 200 to a held access token, cleared the lock that had
\* run out, and the token is still taken
C12_Witness ==
    /\ resp.op = "logout"
    /\ resp.status = 200
    /\ resp.arg \in jwts
    /\ resp.pre.is_locked
    /\ ~users[resp.user].is_locked
    /\ Accepts(resp.arg)

IdentityTaken == {<<"Email already registered">>, <<"Username already taken">>}
C14_TakenIdentityRejected ==
    /\ (/\ resp.op = "register"
        /\ SchemaPasswordOk(resp.arg.password)
        /\ resp.arg.role = "student"
        /\ PasswordErrors(resp.arg.password) = <<>>
        /\ resp.pre.taken # {})
       => (resp.status = 400 /\ resp.detail \in IdentityTaken /\ resp.user = NoUser)
    /\ \A u, v \in DOMAIN users :
          u # v => (users[u].email # users[v].email /\ users[u].username # users[v].username)
C14_Witness ==
    /\ resp.op = "register"
    /\ Cardinality(resp.pre.taken) = 2
    /\ resp.status = InternalError.status
    /\ Cardinality(DOMAIN users) = 2

\* C19: when log_audit_event raises during a registration, during a login
\* that succeeds or during a login that trips the lock, the operation still
\* answers what it was about to answer (201, 200 with the token pair, 423)
\* and the row it committed stays as committed.
AuditRaised ==
    /\ \/ resp.op = "login" /\ resp.user # NoUser
       \/ resp.op = "register"
    /\ resp.pre.audit_raised
C19_AuditFailureKeepsOutcome ==
    AuditRaised =>
        /\ resp.status = resp.pre.due
        /\ (resp.op = "login" /\ resp.pre.due = 200) =>
               (resp.tokens # <<>> /\ users[resp.user].last_login = now)
        /\ (resp.op = "login" /\ resp.pre.due = 423) => users[resp.user].is_locked
        /\ resp.op = "register" => resp.user \in DOMAIN users
C19_Witness ==
    /\ AuditRaised
    /\ resp.op = "login"
    /\ resp.pre.due = 423
    /\ users[resp.user].is_locked
    /\ resp.status = InternalError.status

\* C15: the limit a request is checked with depends on its path alone. A
\* request for an exempt path (health, root, docs) and an OPTIONS request is
\* never answered 429 and leaves the table as it was; a request for the
\* login, register or password-reset routes is checked with 5 per 60 s, 3 per
\* 60 s and 3 per 300 s; a request for any other path is checked with
\* RATE_LIMIT_REQUESTS per RATE_LIMIT_WINDOW_SECONDS.
LimitsOfPath(path) ==
    CASE path = LoginPath -> <<5, 60>>
      [] path = RegisterPath -> <<3, 60>>
      [] path \in {PasswordResetPath, PasswordResetRequestPath} -> <<3, 300>>
      [] OTHER -> <<RATE_LIMIT_REQUESTS, RATE_LIMIT_WINDOW_SECONDS>>
Ungated(request) == request.path \in EXEMPT_PATHS \/ request.method = "OPTIONS"
CheckedByPath ==
    resp.op = "dispatch" =>
        IF Ungated(resp.arg)
        THEN resp.status # 429 /\ resp.pre.rate_key = <<>> /\ resp.pre.headers = <<>>
        ELSE /\ resp.pre.limits = LimitsOfPath(resp.arg.path)
             /\ resp.status = 429 =>
                   CountedAt(<<"rate_limit", <<"ip", resp.arg.client>>, resp.arg.path>>, now)
                       = resp.pre.limits[1]
             /\ resp.status # 429 =>
                   /\ resp.pre.rate_key = <<"rate_limit", <<"ip", resp.arg.client>>, resp.arg.path>>
                   /\ CountedAt(resp.pre.rate_key, now) \in 1..resp.pre.limits[1]
                   /\ \E x \in DOMAIN admitted :
                         x = Admission(resp.pre.rate_key, now, resp.pre.limits[2])
C15_LimitByPathAlone ==
    /\ [](CheckedByPath /\ \A key \in DOMAIN requests : key[3] \notin EXEMPT_PATHS)
    /\ [][(resp'.op = "dispatch" /\ Ungated(resp'.arg))
            => (requests' = requests /\ admitted' = admitted)]_vars
C15_Witness ==
    /\ resp.op = "dispatch"
    /\ resp.arg.path = RegisterPath
    /\ resp.status = 429
    /\ resp.pre.limits = <<3, 60>>
    /\ \E key \in DOMAIN requests : key[3] = MePath /\ requests[key] # <<>>

\* C16: a rejection by the limiter is a 429 whose remaining value is 0 and
\* whose retry hint (the Retry-After header and retry_after in the body) is
\* the time from now until the oldest surviving timestamp leaves the window,
\* in whole seconds: greater than 0 and at most the window.
TimeToReset ==
    Oldest(Entries(requests, resp.pre.rate_key)) + resp.pre.limits[2] * Hz - now
C16_RetryHint ==
    (resp.op = "dispatch" /\ resp.status = 429) =>
        /\ resp.pre.headers[3] = 0
        /\ resp.pre.headers[1] = resp.detail[2]
        /\ resp.detail[2] * Hz <= TimeToReset
        /\ TimeToReset < (resp.detail[2] + 1) * Hz
        /\ resp.detail[2] > 0
        /\ resp.detail[2] <= resp.pre.limits[2]
C16_Witness ==
    /\ resp.op = "dispatch"
    /\ resp.arg.path = LoginPath
    /\ resp.status = 429
    /\ TimeToReset \in 1..(Hz - 1)
    /\ resp.detail[2] = 0

\* C17: a request for a password reset is answered 200 with the same generic
\* message whether or not the address is that of a user, whatever the user
\* table holds; the legacy route refuses only what is not an e-mail address,
\* known or not.
C17_ResetRequestTellsNothing ==
    resp.op = "forgot_password" =>
        IF resp.arg \in EmailStr \/ resp.status # 422
        THEN resp.status = 200 /\ resp.detail = GenericResetMessage
        ELSE FindByEmail(Lower(resp.arg)) = NoUser
C17_Witness ==
    /\ resp.op = "forgot_password"
    /\ resp.status = 200
    /\ resp.pre.known
    /\ users[FindByEmail(Lower(resp.arg))].is_locked
    /\ resp.detail = GenericResetMessage
    /\ Len(reset_tokens) > 0

\* C18: a reset that succeeds leaves the hash of the new password, which the
\* policy accepts, and a cleared lock (no failed attempts, not locked, no
\* locked_until); the new password verifies and logs a locked-out user in at
\* once, and the password the row held before no longer verifies.
ResetDone == resp.op \in {"reset_password", "password_reset_legacy"} /\ resp.status = 200
CredentialReplaced ==
    LET row == users[resp.user] IN
    /\ PasswordErrors(resp.pre.new_password) = <<>>
    /\ row.hashed_password = get_password_hash(resp.pre.new_password)
    /\ verify_password(resp.pre.new_password, row.hashed_password)
    /\ row.failed_login_attempts = 0
    /\ ~row.is_locked
    /\ row.locked_until = NoTime
    /\ \A pw \in Candidates \ {resp.pre.new_password} :
          ~verify_password(pw, row.hashed_password)
C18_ResetRestoresAccess ==
    ResetDone =>
        /\ CredentialReplaced
        /\ resp.pre.is_locked =>
              LoginOutcome(users[resp.user], resp.pre.new_password, now).status = 200
        /\ ~verify_password(resp.pre.hashed_password[2], users[resp.user].hashed_password)
\* C18 as the code has it: the login with the new password succeeds at once
\* when the account is active and verified (else it is answered 403, never
\* 423), and the earlier password stops verifying unless it is chosen again.
C18_ResetRestoresAccessOfGoodStanding ==
    ResetDone =>
        LET row == users[resp.user]
            out == LoginOutcome(row, resp.pre.new_password, now)
        IN /\ CredentialReplaced
           /\ out.status = IF row.is_active /\ row.is_verified THEN 200 ELSE 403
           /\ resp.pre.hashed_password # row.hashed_password
                 => ~verify_password(resp.pre.hashed_password[2], row.hashed_password)
C18_Witness ==
    /\ ResetDone
    /\ resp.pre.is_locked
    /\ resp.pre.hashed_password # users[resp.user].hashed_password
    /\ users[resp.user].is_active
    /\ LoginOutcome(users[resp.user], resp.pre.new_password, now).status = 200

\* C20: a refresh with a refresh token that is signed with the key and not
\* expired is answered 401 "User not found" when its subject is not an
\* active user any more, and otherwise 200 with a new access token and a new
\* refresh token of that subject, the access token carrying the role the
\* row holds now.
ValidRefreshToken(token) ==
    /\ token.type = "refresh"
    /\ token.key = "SECRET_KEY"
    /\ token.exp >= now
C20_RefreshNeedsActiveUser ==
    (resp.op = "refresh" /\ ValidRefreshToken(resp.arg)) =>
        IF resp.arg.sub \notin DOMAIN users \/ ~users[resp.arg.sub].is_active
        THEN resp.status = 401 /\ resp.detail = <<"User not found">> /\ resp.tokens = <<>>
        ELSE /\ resp.status = 200
             /\ Len(resp.tokens) = 2
             /\ resp.tokens[1] = [type |-> "access", sub |-> resp.arg.sub,
                                   role |-> users[resp.arg.sub].role,
                                   exp |-> now + AccessTtl, key |-> "SECRET_KEY"]
             /\ resp.tokens[2] = [type |-> "refresh", sub |-> resp.arg.sub, role |-> "",
                                   exp |-> now + RefreshTtl, key |-> "SECRET_KEY"]
C20_Witness ==
    /\ resp.op = "refresh"
    /\ ValidRefreshToken(resp.arg)
    /\ now > 0
    /\ ~users[resp.arg.sub].is_active
    /\ resp.detail = <<"User not found">>

\* C21: a login whose password verifies, on an account that is not in a
\* running lockout, leaves failed_login_attempts = 0, also when the login is
\* then refused because the account is disabled or its e-mail address is not
\* verified.
VerifiedLogin ==
    /\ resp.op = "login"
    /\ resp.user # NoUser
    /\ verify_password(resp.arg, users[resp.user].hashed_password)
    /\ ~(resp.pre.is_locked /\ resp.status = 423)
C21_VerifiedLoginResetsAttempts ==
    VerifiedLogin => users[resp.user].failed_login_attempts = 0
C21_Witness ==
    /\ VerifiedLogin
    /\ resp.status = 403
    /\ resp.pre.failed_login_attempts > 0
    /\ users[resp.user].failed_login_attempts = resp.pre.failed_login_attempts

\* C22: a check that is rate-limited leaves under the key exactly the
\* timestamps of its list that are still in the window, in their order: the
\* rejected attempt is not appended, no other key is touched, and the moment
\* at which the oldest of them leaves the window is what it was.
C22_RejectedNotRecorded ==
    [][(resp'.op = "is_rate_limited" /\ resp'.detail[1])
        => /\ Entries(requests', resp'.arg)
                = Fresh(Entries(requests, resp'.arg), now, resp'.pre.window)
           /\ \A key \in DOMAIN requests \ {resp'.arg} :
                 key \in DOMAIN requests' /\ requests'[key] = requests[key]
           /\ admitted' = admitted]_vars
C22_Witness ==
    /\ resp.op = "is_rate_limited"
    /\ resp.detail[1]
    /\ Len(Entries(requests, resp.arg)) = resp.pre.limit
    /\ \A i \in 1..Len(Entries(requests, resp.arg)) : Entries(requests, resp.arg)[i] < now

\* C23: a login for an account with is_locked set and now < locked_until is
\* answered 423 without verifying the password and without a change to any
\* row (failed_login_attempts, is_locked, locked_until and last_login stay),
\* and it tells the whole minutes left of the lockout, more than 0 as long as
\* a minute or more is left.
C23_LockedLoginChangesNothing ==
    [][\A ident \in Identities, password \in Passwords :
        LET u == FindUser(Lower(ident)) IN
        (/\ Login(ident, password)
         /\ Known(ident)
         /\ users[u].is_locked
         /\ now < users[u].locked_until)
        => /\ resp'.status = 423
           /\ ~LoginOutcome(users[u], password, now).verified
           /\ users' = users
           /\ resp'.detail = <<"Account locked. Try again in",
                               (users[u].locked_until - now) \div 60>>
           /\ users[u].locked_until - now >= 60 => resp'.detail[2] > 0
           /\ resp'.event = ""
           /\ resp'.tokens = <<>>]_vars
C23_Witness ==
    /\ resp.op = "login"
    /\ resp.status = 423
    /\ resp.pre.is_locked
    /\ resp.detail[2] \in 1..(LOCKOUT_DURATION_MINUTES - 1)
    /\ users[resp.user].locked_until - now = resp.detail[2] * 60

\* C24: a login with a wrong password on a row that is not locked and holds
\* failed_login_attempts = k does exactly one of two things. If k + 1 <
\* MAX_LOGIN_ATTEMPTS the count becomes k + 1, nothing else changes and the
\* answer is 401 with MAX_LOGIN_ATTEMPTS - (k + 1) attempts remaining. If
\* k + 1 >= MAX_LOGIN_ATTEMPTS the row is locked until now + the lockout,
\* the account_locked event is logged and the answer is 423.
C24_FailedVerifyTransitions ==
    [][\A ident \in Identities, password \in Passwords :
        LET u == FindUser(Lower(ident))
            k == users[u].failed_login_attempts
        IN
        (/\ Login(ident, password)
         /\ Known(ident)
         /\ ~users[u].is_locked
         /\ ~verify_password(password, users[u].hashed_password))
        => IF k + 1 < MAX_LOGIN_ATTEMPTS
           THEN /\ users' = [users EXCEPT ![u].failed_login_attempts = k + 1]
                /\ resp'.status = 401
                /\ resp'.detail = <<"Incorrect username or password.",
                                    MAX_LOGIN_ATTEMPTS - (k + 1)>>
                /\ resp'.event = ""
           ELSE /\ users' = [users EXCEPT ![u].failed_login_attempts = k + 1,
                                          ![u].is_locked = TRUE,
                                          ![u].locked_until = now + LockoutSeconds]
                /\ resp'.status = 423
                /\ resp'.event = "account_locked"]_vars
C24_Witness ==
    /\ resp.op = "login"
    /\ resp.event = "account_locked"
    /\ ~resp.pre.is_locked
    /\ resp.pre.failed_login_attempts = MAX_LOGIN_ATTEMPTS - 1
    /\ users[resp.user].locked_until = now + LockoutSeconds
    /\ now > 0

\* C25: after a login for a user, or the resolution of a valid access token
\* of a user, made at a time now >= locked_until, the row is not locked any
\* more, locked_until is cleared and failed_login_attempts was reset before
\* the attempt was judged: a wrong password right after the expiry leaves
\* the count at 1, and the unlock is committed whatever the answer was.
AccessAttempt(u) ==
    \/ resp.op = "login" /\ resp.user = u
    \/ /\ resp.op \in {"me", "logout"}
       /\ resp.arg.type = "access"
       /\ resp.arg.key = "SECRET_KEY"
       /\ resp.arg.exp >= now
       /\ resp.arg.sub = u
C25_ExpiredLockCleared ==
    \A u \in DOMAIN users :
        AccessAttempt(u) =>
            /\ users[u].is_locked => now < users[u].locked_until
            /\ ~users[u].is_locked => users[u].locked_until = NoTime
            /\ (resp.op = "login" /\ resp.pre.is_locked /\ resp.status = 401)
                  => users[u].failed_login_attempts = 1
C25_Witness ==
    \E u \in DOMAIN users :
        /\ AccessAttempt(u)
        /\ resp.op = "me"
        /\ resp.detail = <<"User account is disabled">>
        /\ users[u].is_locked
        /\ now >= users[u].locked_until

\* C26: in every reachable state every row is well formed: a locked row has
\* locked_until set, a row that is not locked has failed_login_attempts
\* below MAX_LOGIN_ATTEMPTS, and the count is never above MAX_LOGIN_ATTEMPTS.
WellFormed(row) ==
    /\ row.is_locked => row.locked_until # NoTime
    /\ ~row.is_locked => row.failed_login_attempts < MAX_LOGIN_ATTEMPTS
    /\ row.failed_login_attempts \in 0..MAX_LOGIN_ATTEMPTS
C26_LockStateWellFormed == \A u \in DOMAIN users : WellFormed(users[u])
C26_Witness ==
    \E u \in DOMAIN users :
        /\ ~users[u].is_locked
        /\ users[u].locked_until = NoTime
        /\ users[u].failed_login_attempts = 0
        /\ streak[u] >= MAX_LOGIN_ATTEMPTS
        /\ resp.op \in {"me", "logout"}
        /\ resp.status = 200

\* C27: a request the limiter rejects never reaches the handler: a login
\* request answered 429 looks up no user, verifies no password, and leaves
\* every row (failed_login_attempts, is_locked, locked_until and the rest) as
\* it was, whatever its body would have done.
C27_RejectedBeforeHandler ==
    /\ [](resp.status = 429 => (resp.op = "dispatch" /\ resp.user = NoUser
                                  /\ resp.tokens = <<>> /\ resp.event = ""))
    /\ [][resp'.status = 429 => (users' = users /\ jwts' = jwts
                                    /\ reset_tokens' = reset_tokens)]_vars
C27_Witness ==
    /\ resp.status = 429
    /\ resp.arg.path = LoginPath
    /\ FindUser(Lower(resp.pre.body.username)) # NoUser
    /\ LoginResult(resp.pre.body.username, resp.pre.body.password, FALSE, now \div Hz).users
          # users


\* the verdict is_rate_limited would give for the key at time t on a table:
\* limited when the timestamps inside the key's own window reach its limit
Throttled(table, key, t) ==
    Decision(Fresh(Entries(table, key), t, quota.window),
             quota.limit, quota.window, t).is_limited

\* C28: a pass of the background sweep over the table leaves the verdict of
\* the next check of a key as it was: a key that is at the limit of its own
\* window, the 300 seconds of a strict route included, is still limited once
\* the sweep has scanned the table.
C28_SweepKeepsVerdict ==
    [][(resp'.op = "cleanup" /\ resp'.detail = <<"scan">>)
          => (Throttled(requests', TheKey, now) = Throttled(requests, TheKey, now))]_vars

\* the sweep has scanned the table while the key of a 300-second route was at
\* its limit
C28_Witness ==
    /\ resp.op = "cleanup"
    /\ resp.detail = <<"scan">>
    /\ quota.window = 300
    /\ cleanup.pc = "delete"
    /\ TheKey \in cleanup.keys_to_remove


\* the rows of reset_tokens that belong to user u, and the one issued last
ResetRowsOf(u) == {i \in 1..Len(reset_tokens) : reset_tokens[i].user_id = u}

LatestResetRow(u) == CHOOSE i \in ResetRowsOf(u) : \A j \in ResetRowsOf(u) : j <= i

\* C29: of the persisted reset tokens of one user, only the one issued last
\* can still complete a reset: every earlier one is marked used by the request
\* that issued its successor, and a reset on /auth/reset-password that
\* succeeds was made with the user's latest token.
C29_OnlyLatestResetTokenUsable ==
    /\ \A u \in DOMAIN users : \A i \in ResetRowsOf(u) :
          UsableResetRows(Opaque(i), now) # {}
              => i = LatestResetRow(u)
    /\ (resp.op = "reset_password" /\ resp.status = 200)
          => resp.arg.id = LatestResetRow(resp.user)

\* a user asked for a reset twice; the second token completed a reset, the
\* first had been marked used by the second request and was never redeemed
C29_Witness ==
    /\ resp.op = "reset_password"
    /\ resp.status = 200
    /\ Cardinality(ResetRowsOf(resp.user)) >= 2
    /\ resp.arg.id = LatestResetRow(resp.user)
    /\ \E i \in ResetRowsOf(resp.user) :
          /\ i < resp.arg.id
          /\ reset_tokens[i].used_at # NoTime
          /\ Opaque(i) \notin consumed


\* a reply of one of the two reset endpoints that is not a success
ResetRefused(r) ==
    /\ r.op \in {"reset_password", "password_reset_legacy"}
    /\ r.status # 200

\* the token would complete a reset at time t if it came with a password the
\* policy accepts: on /auth/reset-password for a persisted token, on the
\* legacy /auth/password-reset for a signed one
Redeemable(token, t) ==
    \/ UsableResetRows(token, t) # {}
    \/ FindByEmail(Lower(verify_password_reset_token(token, t))) # NoUser

\* C30: a password reset that is refused, for the new password or for the
\* token, leaves every user row (credential and lock state) and every reset
\* token row as it was, so the token that was presented is as redeemable after
\* the refusal as it was before.
C30_FailedResetChangesNothing ==
    [][ResetRefused(resp')
          => /\ users' = users
             /\ reset_tokens' = reset_tokens
             /\ \A token \in Presentable :
                   resp'.arg = token
                       => (Redeemable(token, now)' = Redeemable(token, now))]_vars

\* /auth/reset-password refused a password the policy rejects that came with
\* a token that is unused and unexpired, and the token is still unused
C30_Witness ==
    /\ resp.op = "reset_password"
    /\ resp.status = 400
    /\ resp.detail # <<"Invalid or expired reset token">>
    /\ UsableResetRows(resp.arg, now) # {}

====
